---- MODULE Spec2Model ----
(***************************************************************************)
(* PDFMatcher (ipsas/modules/pdf_matcher.py): reconciliation of the PDF    *)
(* files of a bundle against the articles of its XML manifest.             *)
(*                                                                         *)
(* Scores are kept as integers in units of 1/10000 (1.0 = 10000), the      *)
(* component similarities in percent (1.0 = 100) and the weights in        *)
(* percent, so that weight * component is a score.  Article and PDF        *)
(* indices are 1-based here (article_index 0 of the code is article 1).    *)
(* A PDF is identified by its position in pdf_entries (the code uses       *)
(* pe.path, which is unique per archive member).                           *)
(***************************************************************************)
EXTENDS Integers, Sequences, FiniteSets, TLC

\* ---------------------------------------------------------------------------
\* Bounds of the model
\* ---------------------------------------------------------------------------
MaxArticles == 3
MaxPdfs == 3
MaxPairs == 4

\* ---------------------------------------------------------------------------
\* Program constants (class attributes of PDFMatcher)
\* ---------------------------------------------------------------------------
DEFAULT_MIN_SCORE_HIGH_CONFIDENCE == 7500
DEFAULT_MIN_SCORE_MEDIUM_CONFIDENCE == 4500
DEFAULT_MIN_SCORE_LOW_CONFIDENCE == 2500
MARGIN_SCORE_GAP == 1500
WEIGHT_TITLE == 60
WEIGHT_AUTHORS == 30
WEIGHT_PAGES == 5
WEIGHT_FILENAME == 5
\* hard bounds of _adjust_thresholds
HIGH_LO == 6500
HIGH_HI == 8500
MEDIUM_LO == 3500
MEDIUM_HI == 6500
ADJUST_MIN_CHANGE == 500
\* scores of the identifier phases
SCORE_EXACT == 10000
SCORE_DOI_PARTIAL == 9500

\* Python's None (also standing for an empty, falsy string); an absent DOI is
\* the empty character sequence
None == "None"
NoDoi == <<>>

\* ---------------------------------------------------------------------------
\* Small helpers
\* ---------------------------------------------------------------------------
Max(a, b) == IF a >= b THEN a ELSE b
Min(a, b) == IF a <= b THEN a ELSE b
Abs(x) == IF x >= 0 THEN x ELSE -x
Range(s) == {s[i] : i \in 1..Len(s)}

\* s.startswith(p) on character sequences
StartsWith(s, p) == /\ Len(p) <= Len(s)
                    /\ \A i \in 1..Len(p) : s[i] = p[i]

\* ---------------------------------------------------------------------------
\* Strings: a str is its sequence of one-character strings
\* ---------------------------------------------------------------------------
UpperChars == <<"A", "B", "C", "D", "E", "F", "G", "H", "I", "J", "K", "L", "M",
                "N", "O", "P", "Q", "R", "S", "T", "U", "V", "W", "X", "Y", "Z">>
LowerChars == <<"a", "b", "c", "d", "e", "f", "g", "h", "i", "j", "k", "l", "m",
                "n", "o", "p", "q", "r", "s", "t", "u", "v", "w", "x", "y", "z">>
Digits == {"0", "1", "2", "3", "4", "5", "6", "7", "8", "9"}
\* \s
Whitespace == {" "}
\* \w
WordChars == Range(UpperChars) \cup Range(LowerChars) \cup Digits \cup {"_"}

LowerChar(c) ==
    IF c \in Range(UpperChars)
    THEN LowerChars[CHOOSE i \in 1..Len(UpperChars) : UpperChars[i] = c]
    ELSE c
UpperChar(c) ==
    IF c \in Range(LowerChars)
    THEN UpperChars[CHOOSE i \in 1..Len(LowerChars) : LowerChars[i] = c]
    ELSE c
\* str.lower(), str.upper()
Lower(s) == [i \in 1..Len(s) |-> LowerChar(s[i])]
Upper(s) == [i \in 1..Len(s) |-> UpperChar(s[i])]

\* s[n:]
Drop(s, n) == SubSeq(s, n + 1, Len(s))
\* the length of the longest prefix (suffix) of s made of characters of cs
LeadingRun(s, cs) ==
    LET stops == {i \in 1..Len(s) : s[i] \notin cs}
    IN IF stops = {} THEN Len(s) ELSE (CHOOSE i \in stops : \A j \in stops : i <= j) - 1
TrailingRun(s, cs) ==
    LET stops == {i \in 1..Len(s) : s[i] \notin cs}
    IN IF stops = {} THEN Len(s)
       ELSE Len(s) - (CHOOSE i \in stops : \A j \in stops : i >= j)
\* str.lstrip(), str.rstrip(), str.strip()
LStrip(s) == Drop(s, LeadingRun(s, Whitespace))
RStrip(s) == SubSeq(s, 1, Len(s) - TrailingRun(s, Whitespace))
Strip(s) == RStrip(LStrip(s))

\* the characters of s at the positions idx, in order
Pick(s, idx) ==
    [j \in 1..Cardinality(idx) |->
       s[CHOOSE i \in idx : Cardinality({x \in idx : x <= i}) = j]]
\* the characters of s that belong to cs
Keep(s, cs) == Pick(s, {i \in 1..Len(s) : s[i] \in cs})

\* ---------------------------------------------------------------------------
\* Normalization: normalize_text, normalize_doi, normalize_edn
\* ---------------------------------------------------------------------------
\* re.sub(r'[^\w\s]', ' ', t)
PunctuationToSpace(t) ==
    [i \in 1..Len(t) |-> IF t[i] \in WordChars \cup Whitespace THEN t[i] ELSE " "]
\* re.sub(r'\s+', ' ', t)
CollapseWhitespace(t) ==
    LET kept == {i \in 1..Len(t) : ~(t[i] \in Whitespace /\ i > 1 /\ t[i - 1] \in Whitespace)}
        u    == Pick(t, kept)
    IN [i \in 1..Len(u) |-> IF u[i] \in Whitespace THEN " " ELSE u[i]]
normalize_text(text) ==
    IF text = <<>> THEN <<>>
    ELSE Strip(CollapseWhitespace(PunctuationToSpace(Lower(text))))

\* re.sub(r'^\s*(doi|DOI)[:\s]+', '', d): the label in lower or in upper case,
\* followed by at least one colon or whitespace
StripDoiLabel(d) ==
    LET n0   == LeadingRun(d, Whitespace)
        rest == Drop(d, n0)
        sep  == LeadingRun(Drop(rest, 3), {":"} \cup Whitespace)
    IN IF /\ StartsWith(rest, <<"d", "o", "i">>) \/ StartsWith(rest, <<"D", "O", "I">>)
          /\ sep >= 1
       THEN Drop(rest, 3 + sep)
       ELSE d
\* re.sub(r'^(https?://)?((dx\.)?doi\.org/|doi\.org/)', '', d)
DoiUrlPrefixes ==
    {scheme \o host :
       scheme \in {<<>>, <<"h", "t", "t", "p", ":", "/", "/">>,
                   <<"h", "t", "t", "p", "s", ":", "/", "/">>},
       host \in {<<"d", "o", "i", ".", "o", "r", "g", "/">>,
                 <<"d", "x", ".", "d", "o", "i", ".", "o", "r", "g", "/">>}}
StripDoiUrl(d) ==
    LET hits == {p \in DoiUrlPrefixes : StartsWith(d, p)}
    IN IF hits = {} THEN d ELSE Drop(d, Len(CHOOSE p \in hits : TRUE))
\* re.sub(r'[)\]},;\.]+$', '', d)
StripTrailingJunk(d) ==
    SubSeq(d, 1, Len(d) - TrailingRun(d, {")", "]", "}", ",", ";", "."}))
normalize_doi(doi) ==
    IF doi = <<>> THEN <<>>
    ELSE Strip(Lower(StripTrailingJunk(StripDoiUrl(StripDoiLabel(Strip(doi))))))

\* a variant that drops the label even when no separator follows it
StripEdnLabelLoose(e) ==
    LET rest == LStrip(e)
    IN IF StartsWith(Upper(rest), <<"E", "D", "N">>)
       THEN Drop(rest, 3 + LeadingRun(Drop(rest, 3), {":"} \cup Whitespace))
       ELSE e
\* re.sub(r'^\s*(edn|EDN)[:\s]+', '', e, flags=re.IGNORECASE)
StripEdnLabel(e) ==
    LET rest == LStrip(e)
        sep  == LeadingRun(Drop(rest, 3), {":"} \cup Whitespace)
    IN IF StartsWith(Upper(rest), <<"E", "D", "N">>) /\ sep >= 1
       THEN Drop(rest, 3 + sep)
       ELSE e
normalize_edn(edn) ==
    IF edn = <<>> THEN <<>>
    ELSE LET e == Keep(StripEdnLabel(Upper(Strip(edn))), Range(UpperChars) \cup Digits)
         IN IF Len(e) > 6 THEN SubSeq(e, 1, 6) ELSE e

\* ---------------------------------------------------------------------------
\* Title similarity: calculate_title_similarity and its four metrics.
\* Similarities are in units of 1/10000, rounded down.
\* ---------------------------------------------------------------------------
\* 1.0
Unit == 10000

\* str.split(): the maximal runs of non-whitespace characters
RECURSIVE Split(_)
Split(s) ==
    LET t    == LStrip(s)
        gaps == {i \in 1..Len(t) : t[i] \in Whitespace}
        n    == IF gaps = {} THEN Len(t)
                ELSE (CHOOSE i \in gaps : \A j \in gaps : i <= j) - 1
    IN IF t = <<>> THEN <<>> ELSE <<SubSeq(t, 1, n)>> \o Split(Drop(t, n))

\* sum(f[x] for x in S)
RECURSIVE Sum(_, _)
Sum(f, S) ==
    IF S = {} THEN 0
    ELSE LET x == CHOOSE y \in S : TRUE IN f[x] + Sum(f, S \ {x})

\* the largest k in lo..hi with k * k <= n
RECURSIVE ISqrtIn(_, _, _)
ISqrtIn(n, lo, hi) ==
    IF lo = hi THEN lo
    ELSE LET mid == (lo + hi + 1) \div 2
         IN IF mid * mid <= n THEN ISqrtIn(n, mid, hi) ELSE ISqrtIn(n, lo, mid - 1)

\* a set of trigrams; a string shorter than three characters is its own trigram
_trigrams(s0) ==
    LET s == CollapseWhitespace(Strip(s0))
    IN IF Len(s) < 3 THEN (IF s # <<>> THEN {s} ELSE {})
       ELSE {SubSeq(s, i, i + 2) : i \in 1..(Len(s) - 2)}

\* the words longer than two characters; the vector maps a word to its term
\* frequency count / total, kept as the pair <<count, total>>
VectorWords(text) ==
    LET words == Split(normalize_text(text))
    IN Pick(words, {i \in 1..Len(words) : Len(words[i]) > 2})
_text_to_vector(text) ==
    LET words == VectorWords(text)
    IN [w \in Range(words) |->
          <<Cardinality({i \in 1..Len(words) : words[i] = w}), Len(words)>>]

\* dot / (norm1 * norm2); the totals cancel, leaving
\* sum(c1 * c2) / sqrt(sum(c1^2) * sum(c2^2))
_cosine_similarity(vec1, vec2) ==
    LET common == DOMAIN vec1 \cap DOMAIN vec2
        dot    == Sum([w \in common |-> vec1[w][1] * vec2[w][1]], common)
        sq1    == Sum([w \in DOMAIN vec1 |-> vec1[w][1] * vec1[w][1]], DOMAIN vec1)
        sq2    == Sum([w \in DOMAIN vec2 |-> vec2[w][1] * vec2[w][1]], DOMAIN vec2)
        num    == dot * dot
        den    == sq1 * sq2
        q      == (Unit * num) \div den
        r      == (Unit * num) % den
    IN IF common = {} THEN 0
       ELSE ISqrtIn(Unit * q + (Unit * r) \div den, 0, Unit)

\* the length of the longest common subsequence of two word lists
RECURSIVE LcsLength(_, _)
LcsLength(w1, w2) ==
    IF w1 = <<>> \/ w2 = <<>> THEN 0
    ELSE IF w1[Len(w1)] = w2[Len(w2)]
         THEN LcsLength(SubSeq(w1, 1, Len(w1) - 1), SubSeq(w2, 1, Len(w2) - 1)) + 1
         ELSE LET a == LcsLength(SubSeq(w1, 1, Len(w1) - 1), w2)
                  b == LcsLength(w1, SubSeq(w2, 1, Len(w2) - 1))
              IN IF a >= b THEN a ELSE b
_lcs_similarity(s1, s2) ==
    LET words1 == Split(s1)
        words2 == Split(s2)
        shorter == IF Len(words1) <= Len(words2) THEN Len(words1) ELSE Len(words2)
    IN IF words1 = <<>> \/ words2 = <<>> THEN 0
       ELSE (Unit * LcsLength(words1, words2)) \div shorter

\* len(a & b) / len(a | b) when both sets are non-empty
Jaccard(a, b) ==
    IF a # {} /\ b # {}
    THEN (Unit * Cardinality(a \cap b)) \div Cardinality(a \cup b)
    ELSE 0
\* the words longer than three characters
LongTokens(t) == {w \in Range(Split(t)) : Len(w) > 3}

TitleCombined(t1_norm, t2_norm) ==
    LET vec1 == _text_to_vector(t1_norm)
        vec2 == _text_to_vector(t2_norm)
        cosine_sim    == _cosine_similarity(vec1, vec2)
        token_jaccard == Jaccard(LongTokens(t1_norm), LongTokens(t2_norm))
        tri_jaccard   == Jaccard(_trigrams(t1_norm), _trigrams(t2_norm))
        lcs_sim       == _lcs_similarity(t1_norm, t2_norm)
    IN (40 * cosine_sim + 30 * token_jaccard + 15 * tri_jaccard + 15 * lcs_sim) \div 100
calculate_title_similarity(title1, title2) ==
    LET t1_norm == normalize_text(title1)
        t2_norm == normalize_text(title2)
    IN IF title1 = <<>> \/ title2 = <<>> THEN 0
       ELSE IF t1_norm = <<>> \/ t2_norm = <<>> THEN 0
       ELSE IF t1_norm = t2_norm THEN Unit
       ELSE Max(0, Min(Unit, TitleCombined(t1_norm, t2_norm)))

\* ---------------------------------------------------------------------------
\* Identifiers used in the bundles.  A DOI is its sequence of characters
\* (already normalized); an EDN is a 6-character token.
\* ---------------------------------------------------------------------------
\* "10.1234/ab": a PDF's DOI cut short (the shortest _is_valid_doi accepts)
DoiShort  == <<"1","0",".","1","2","3","4","/","a","b">>
\* "10.1234/abc" and "10.1234/abcd": article DOIs
DoiX      == <<"1","0",".","1","2","3","4","/","a","b","c">>
DoiY      == <<"1","0",".","1","2","3","4","/","a","b","c","d">>
\* "10.9999/zzzzzzzzzzzz": a well-formed 20-character DOI of no article
DoiOrphan == <<"1","0",".","9","9","9","9","/","z","z","z","z","z","z","z","z","z","z","z","z">>

EdnP == "ABC123"
EdnQ == "XYZ789"

\* Component scores of one (article, PDF) pair, as _calculate_combined_score
\* computes them from titles, authors, pages and the file name.
Comp(t, a, p, f) == [title |-> t, authors |-> a, pages |-> p, filename |-> f]
CompZero   == Comp(0, 0, 0, 0)
CompStrong == Comp(100, 100, 0, 0)

\* Archive member names: <<directory, base name>>.  Member 2 may live in a
\* sub-directory under the base name of member 1.
PdfBase == <<"p1.pdf", "p2.pdf", "p3.pdf", "p4.pdf", "p5.pdf">>

Shapes == {sh \in (1..MaxArticles) \X (1..MaxPdfs) : sh[1] * sh[2] <= MaxPairs}

\* ---------------------------------------------------------------------------
\* Records
\* ---------------------------------------------------------------------------
\* Path(pe.arcname).name
Filename(pe) == pe.arcname[2]

\* MatchResult; the field pdf (position of the PDF in pdf_entries, 0 for none)
\* is kept next to pdf_filename to tell two PDFs of the same base name apart.
MatchResult(a, k, fname, score, method, confidence, details) ==
    [article_index |-> a, pdf |-> k, pdf_filename |-> fname, score |-> score,
     method |-> method, confidence |-> confidence, details |-> details]

\* State threaded through the loops of one phase: the manifest's PDF file
\* references per article, the matched sets and the matches list.
PhaseState(files, ma, mp, la, lp, ms) ==
    [files |-> files, matched_articles |-> ma, matched_pdfs |-> mp,
     local_matched_articles |-> la, local_matched_pdfs |-> lp, matches |-> ms]

\* ---------------------------------------------------------------------------
\* Manifest writer
\* ---------------------------------------------------------------------------
\* An article's <files> element is the sequence of its <file> children, each
\* with its desc attribute (the empty string when the attribute is missing) and
\* its text; an article without <files> has the empty sequence.
FileElem(desc, text) == [desc |-> desc, text |-> text]
DescPdf == <<"P", "D", "F">>
\* (fe.get("desc") or "").strip().lower() == "pdf"
IsPdfDesc(desc) == Lower(Strip(desc)) = <<"p", "d", "f">>
PdfElems(fs) == {i \in 1..Len(fs) : IsPdfDesc(fs[i].desc)}
\* the texts of the file(desc=PDF) elements of an article, in document order
PdfTexts(fs) == [i \in 1..Cardinality(PdfElems(fs)) |-> Pick(fs, PdfElems(fs))[i].text]

\* set_pdf_file_in_article: replace the text of the first file(desc=PDF)
\* element if there is one, else append a new one
SetPdfFileAppend(fs, name) == Append(fs, FileElem(DescPdf, name))
set_pdf_file_in_article(fs, name) ==
    IF PdfElems(fs) # {}
    THEN [fs EXCEPT ![CHOOSE i \in PdfElems(fs) : \A j \in PdfElems(fs) : i <= j].text = name]
    ELSE Append(fs, FileElem(DescPdf, name))

\* cleanup_pdf_files_in_articles: every file(desc=PDF) element removed
cleanup_pdf_files_in_articles(files) ==
    [a \in DOMAIN files |-> Keep(files[a], {fe \in Range(files[a]) : ~IsPdfDesc(fe.desc)})]

\* The assignment common to all phases: write the file reference, add to the
\* matched sets, append the MatchResult.
Assign(st, a, k, fname, local, m) ==
    [st EXCEPT !.files[a] = set_pdf_file_in_article(@, fname),
               !.matched_articles = @ \cup {a},
               !.matched_pdfs = @ \cup {k},
               !.local_matched_articles = IF local THEN @ \cup {a} ELSE @,
               !.local_matched_pdfs = IF local THEN @ \cup {k} ELSE @,
               !.matches = Append(@, m)]

\* ---------------------------------------------------------------------------
\* Phase 0: _match_by_edn
\* ---------------------------------------------------------------------------
\* edn_index[e]: the articles carrying EDN e
EdnArticles(arts, e) == {i \in 1..Len(arts) : arts[i].edn = e}

\* one iteration of "for pe in pdf_entries"
\* variant without the uniqueness test of line 1298: a shared EDN goes to its
\* first article (C5 must reject it)
EdnStepNoUnique(st, arts, pdfs, k) ==
    LET pe == pdfs[k]
        as == EdnArticles(arts, pe.edn)
        a  == CHOOSE i \in as : \A j \in as : i <= j
    IN IF pe.edn = None \/ as = {} THEN st
       ELSE IF a \notin st.matched_articles /\ k \notin st.matched_pdfs
            THEN Assign(st, a, k, Filename(pe), FALSE,
                        MatchResult(a, k, Filename(pe), SCORE_EXACT, "edn_exact",
                                    "high", [edn_match |-> "exact", edn |-> pe.edn]))
            ELSE st
\* the loop body as written
EdnStep(st, arts, pdfs, k) ==
    LET pe == pdfs[k]
        as == EdnArticles(arts, pe.edn)
        a  == CHOOSE i \in as : TRUE
    IN IF pe.edn = None THEN st
       ELSE IF Cardinality(as) = 1
            THEN IF a \notin st.matched_articles /\ k \notin st.matched_pdfs
                 THEN Assign(st, a, k, Filename(pe), FALSE,
                             MatchResult(a, k, Filename(pe), SCORE_EXACT, "edn_exact",
                                         "high", [edn_match |-> "exact", edn |-> pe.edn]))
                 ELSE st
            ELSE st

RECURSIVE EdnLoop(_, _, _, _)
EdnLoop(st, arts, pdfs, k) ==
    IF k > Len(pdfs) THEN st
    ELSE EdnLoop(EdnStep(st, arts, pdfs, k), arts, pdfs, k + 1)

\* ---------------------------------------------------------------------------
\* Phase 1: _match_by_doi
\* ---------------------------------------------------------------------------
DoiArticles(arts, d) == {i \in 1..Len(arts) : arts[i].doi = d}

\* keys of doi_index in insertion order (first article carrying each DOI)
RECURSIVE DoiKeys(_, _, _)
DoiKeys(arts, i, acc) ==
    IF i > Len(arts) THEN acc
    ELSE DoiKeys(arts, i + 1,
                 IF arts[i].doi = NoDoi \/ arts[i].doi \in Range(acc)
                 THEN acc ELSE Append(acc, arts[i].doi))

\* PDF DOI is a proper prefix of the XML DOI, at most 50% of its length missing
FwdPartial(xml_doi, pdf_doi) ==
    /\ StartsWith(xml_doi, pdf_doi)
    /\ Len(xml_doi) > Len(pdf_doi)
    /\ 2 * (Len(xml_doi) - Len(pdf_doi)) <= Len(pdf_doi)

\* XML DOI is a proper prefix of the PDF DOI
RevPartial(xml_doi, pdf_doi) ==
    /\ StartsWith(pdf_doi, xml_doi)
    /\ Len(pdf_doi) > Len(xml_doi)
    /\ 2 * (Len(pdf_doi) - Len(xml_doi)) <= Len(xml_doi)

\* the first key of doi_index, in insertion order, on which the partial loop
\* assigns and breaks (0 if the loop runs to its end)
PartialHit(st, arts, keys, pdf_doi, forward) ==
    LET ok(j) == /\ IF forward THEN FwdPartial(keys[j], pdf_doi)
                               ELSE RevPartial(keys[j], pdf_doi)
                 /\ Cardinality(DoiArticles(arts, keys[j])) = 1
                 /\ \A i \in DoiArticles(arts, keys[j]) : i \notin st.matched_articles
        hits == {j \in 1..Len(keys) : ok(j)}
    IN IF hits = {} THEN 0 ELSE CHOOSE j \in hits : \A h \in hits : j <= h

DoiPartialAssign(st, arts, pdfs, k, xml_doi, kind) ==
    LET pe == pdfs[k]
        a  == CHOOSE i \in DoiArticles(arts, xml_doi) : TRUE
    IN Assign(st, a, k, Filename(pe), FALSE,
              MatchResult(a, k, Filename(pe), SCORE_DOI_PARTIAL, "doi_partial", "high",
                          [doi_match |-> kind, pdf_doi |-> pe.doi, xml_doi |-> xml_doi]))

\* one iteration of "for pe in pdf_entries"
DoiStep(st, arts, pdfs, k) ==
    LET pe   == pdfs[k]
        as   == DoiArticles(arts, pe.doi)
        a    == CHOOSE i \in as : TRUE
        keys == DoiKeys(arts, 1, <<>>)
        fwd  == PartialHit(st, arts, keys, pe.doi, TRUE)
        rev  == PartialHit(st, arts, keys, pe.doi, FALSE)
    IN IF k \in st.matched_pdfs \/ pe.doi = NoDoi THEN st
       ELSE IF as # {}
            THEN IF Cardinality(as) = 1 /\ a \notin st.matched_articles
                 THEN Assign(st, a, k, Filename(pe), FALSE,
                             MatchResult(a, k, Filename(pe), SCORE_EXACT, "doi_exact",
                                         "high", [doi_match |-> "exact"]))
                 ELSE st
            ELSE IF fwd # 0 THEN DoiPartialAssign(st, arts, pdfs, k, keys[fwd], "partial")
            ELSE IF rev # 0 THEN DoiPartialAssign(st, arts, pdfs, k, keys[rev], "partial_reverse")
            ELSE st

RECURSIVE DoiLoop(_, _, _, _)
DoiLoop(st, arts, pdfs, k) ==
    IF k > Len(pdfs) THEN st
    ELSE DoiLoop(DoiStep(st, arts, pdfs, k), arts, pdfs, k + 1)

\* _is_valid_doi on a character sequence: at least 10 characters, "10." and
\* 3 to 9 digits before the first "/", at least 2 characters after it
_is_valid_doi(d) ==
    /\ Len(d) >= 10
    /\ StartsWith(d, <<"1", "0", ".">>)
    /\ \E s \in 1..Len(d) :
         /\ d[s] = "/"
         /\ \A i \in 1..(s - 1) : d[i] # "/"
         /\ s - 4 >= 3 /\ s - 4 <= 9
         /\ \A i \in 4..(s - 1) : d[i] \in Digits
         /\ Len(d) - s >= 2

\* ---------------------------------------------------------------------------
\* Components of the combined score: compare_authors and the signals of
\* _calculate_combined_score
\* ---------------------------------------------------------------------------
\* the maximal runs of characters of cs in s
RECURSIVE Runs(_, _)
Runs(s, cs) ==
    LET t     == Drop(s, LeadingRun(s, Range(s) \ cs))
        n     == LeadingRun(t, cs)
    IN IF t = <<>> THEN <<>> ELSE <<SubSeq(t, 1, n)>> \o Runs(Drop(t, n), cs)
\* p in s
Contains(s, p) == \E i \in 0..(Len(s) - Len(p)) : SubSeq(s, i + 1, i + Len(p)) = p
\* str(n) for n >= 0
DigitChars == <<"0", "1", "2", "3", "4", "5", "6", "7", "8", "9">>
RECURSIVE Str(_)
Str(n) == IF n < 10 THEN <<DigitChars[n + 1]>> ELSE Str(n \div 10) \o <<DigitChars[(n % 10) + 1]>>

\* strip, lower, keep letters, hyphen and apostrophe
_norm_surname(s) ==
    IF s = <<>> THEN <<>>
    ELSE Keep(Lower(Strip(s)), Range(LowerChars) \cup {"-", "'"})
\* re.split(r"[,\s]+", author.strip())[0]: an author's first word
FirstPart(author) ==
    LET a == Strip(author)
    IN SubSeq(a, 1, LeadingRun(a, Range(a) \ ({","} \cup Whitespace)))
\* the normalized surnames of the authors whose first word is longer than 2
PdfSurnames(pdf_authors) ==
    {_norm_surname(FirstPart(pdf_authors[i])) :
       i \in {j \in 1..Len(pdf_authors) :
                pdf_authors[j] # <<>> /\ Len(FirstPart(pdf_authors[j])) > 2}} \ {<<>>}
XmlSurnames(xml_surnames) ==
    {_norm_surname(xml_surnames[i]) : i \in {j \in 1..Len(xml_surnames) : xml_surnames[j] # <<>>}}
\* a PDF surname that is no XML surname counts for a half when it shares its
\* first five characters with an XML surname that is no PDF surname
PartialMatches(pdf_set, xml_set) ==
    {p \in pdf_set \ xml_set :
       /\ Len(p) >= 5
       /\ \E x \in xml_set \ pdf_set : Len(x) >= 5 /\ SubSeq(p, 1, 5) = SubSeq(x, 1, 5)}
compare_authors(pdf_authors, xml_surnames) ==
    LET xml_set == XmlSurnames(xml_surnames)
        pdf_set == PdfSurnames(pdf_authors)
        larger  == Max(Cardinality(xml_set), Cardinality(pdf_set))
        exact_score   == (Unit * Cardinality(xml_set \cap pdf_set)) \div larger
        partial_score == ((Unit \div 2) * Cardinality(PartialMatches(pdf_set, xml_set))) \div larger
        cosine_sim    == _cosine_similarity([s \in xml_set |-> <<1, 1>>], [s \in pdf_set |-> <<1, 1>>])
    IN IF pdf_authors = <<>> \/ xml_surnames = <<>> THEN 0
       ELSE IF xml_set = {} \/ pdf_set = {} THEN 0
       ELSE Min(Unit, (50 * exact_score + 30 * cosine_sim + 20 * partial_score) \div 100)

\* the characters U+2013 (en dash) and U+2014 (em dash)
EnDash == "en dash"
EmDash == "em dash"
\* f"{start}[-..]{end}" with the hyphen and the two dashes between the
\* brackets: the brackets and the dashes are characters of the string that is
\* looked up in the file name
PagesPattern(pages) == Str(pages[1]) \o <<"[", "-", EnDash, EmDash, "]">> \o Str(pages[2])
PagesComponent(pages, pdf_name) ==
    IF pages = None THEN 0
    ELSE IF Contains(Lower(pdf_name), PagesPattern(pages)) THEN Unit
    ELSE IF Contains(pdf_name, Str(pages[1])) \/ Contains(pdf_name, Str(pages[2])) THEN Unit \div 2
    ELSE 0

\* Path(pdf_name).stem: the last path component without its last suffix
Stem(pdf_name) ==
    LET slashes == {i \in 1..Len(pdf_name) : pdf_name[i] = "/"}
        name    == IF slashes = {} THEN pdf_name
                   ELSE Drop(pdf_name, CHOOSE i \in slashes : \A j \in slashes : i >= j)
        dots    == {i \in 2..Len(name) : name[i] = "."}
    IN IF dots = {} \/ name[Len(name)] = "." THEN name
       ELSE SubSeq(name, 1, (CHOOSE i \in dots : \A j \in dots : i >= j) - 1)
\* re.findall(r'\b[a-z]{4,}\b', s): the words of s made of four or more
\* lower-case letters
KeyWords(s) ==
    {w \in Range(Runs(s, WordChars)) : Len(w) >= 4 /\ Range(w) \subseteq Range(LowerChars)}
FilenameComponent(article_title, pdf_name) ==
    LET title_words    == KeyWords(Lower(article_title))
        filename_words == KeyWords(Lower(Stem(pdf_name)))
    IN IF article_title # <<>> THEN Jaccard(title_words, filename_words) ELSE 0

\* max of the similarities with the titles (author lists) the article has
TitleComponent(pdf_meta, article) ==
    IF pdf_meta.title = <<>> THEN 0
    ELSE Max(IF article.title_rus # <<>>
             THEN calculate_title_similarity(pdf_meta.title, article.title_rus) ELSE 0,
             IF article.title_eng # <<>>
             THEN calculate_title_similarity(pdf_meta.title, article.title_eng) ELSE 0)
AuthorsComponent(pdf_meta, article) ==
    IF pdf_meta.authors = <<>> THEN 0
    ELSE Max(IF article.authors_rus # <<>>
             THEN compare_authors(pdf_meta.authors, article.authors_rus) ELSE 0,
             IF article.authors_eng # <<>>
             THEN compare_authors(pdf_meta.authors, article.authors_eng) ELSE 0)
\* a similarity in units of 1/10000 as a percentage, rounded to the nearest
Percent(x) == (x + 50) \div 100
\* the components dictionary, in percent
Components(pdf_meta, article, pdf_name) ==
    Comp(Percent(TitleComponent(pdf_meta, article)),
         Percent(AuthorsComponent(pdf_meta, article)),
         Percent(PagesComponent(article.pages, pdf_name)),
         Percent(FilenameComponent(IF article.title_rus # <<>> THEN article.title_rus
                                   ELSE article.title_eng, pdf_name)))

\* ---------------------------------------------------------------------------
\* Phase 2: _match_fallback
\* ---------------------------------------------------------------------------
\* total_score of _calculate_combined_score: the weighted sum of the components
_calculate_combined_score(c) ==
    WEIGHT_TITLE * c.title + WEIGHT_AUTHORS * c.authors
    + WEIGHT_PAGES * c.pages + WEIGHT_FILENAME * c.filename

\* scored_pairs before sorting: remaining articles x remaining PDFs in list
\* order, pairs of score 0 left out
RECURSIVE ScorePairs(_, _, _, _, _, _, _)
ScorePairs(na, np, cs, ma, mp, idx, acc) ==
    IF idx >= na * np THEN acc
    ELSE LET a == (idx \div np) + 1
             k == (idx % np) + 1
             s == _calculate_combined_score(cs[a][k])
         IN ScorePairs(na, np, cs, ma, mp, idx + 1,
                IF a \notin ma /\ k \notin mp /\ s > 0
                THEN Append(acc, [score |-> s, art |-> a, pdf |-> k, components |-> cs[a][k]])
                ELSE acc)

\* list.sort(key=score, reverse=True): stable, equal scores keep list order
InsertDesc(sorted, x) ==
    LET before == {i \in 1..Len(sorted) : sorted[i].score >= x.score}
        n == Cardinality(before)
    IN SubSeq(sorted, 1, n) \o <<x>> \o SubSeq(sorted, n + 1, Len(sorted))

RECURSIVE SortDesc(_, _, _)
SortDesc(s, i, acc) ==
    IF i > Len(s) THEN acc ELSE SortDesc(s, i + 1, InsertDesc(acc, s[i]))

\* by_article[a]: the candidates of article a, in scored_pairs order
Candidates(sp, a) == SelectSeq(sp, LAMBDA x : x.art = a)

\* margin rule
IsAmbiguous(sp, a) ==
    LET c == Candidates(sp, a)
    IN Len(c) >= 2 /\ c[1].score - c[2].score < MARGIN_SCORE_GAP

AmbiguousArticles(sp) == {a \in {sp[i].art : i \in 1..Len(sp)} : IsAmbiguous(sp, a)}

\* _adjust_thresholds on the scores sorted in descending order
\* variant without the max/min of lines 1637-1638 (C10 must reject it)
AdjustNoClamp(scores, high, medium) ==
    LET n == Len(scores)
        p75 == IF n > 3 THEN scores[(n \div 4) + 1] ELSE scores[1]
        p50 == IF n > 1 THEN scores[(n \div 2) + 1] ELSE scores[1]
    IN [high   |-> IF Abs(p75 - high) > ADJUST_MIN_CHANGE THEN p75 ELSE high,
        medium |-> IF Abs(p50 - medium) > ADJUST_MIN_CHANGE THEN p50 ELSE medium]
\* the method as written
_adjust_thresholds(scores, high, medium) ==
    LET n == Len(scores)
        p75 == IF n > 3 THEN scores[(n \div 4) + 1] ELSE scores[1]
        p50 == IF n > 1 THEN scores[(n \div 2) + 1] ELSE scores[1]
        new_high == Max(HIGH_LO, Min(HIGH_HI, p75))
        new_medium == Max(MEDIUM_LO, Min(MEDIUM_HI, p50))
    IN IF n = 0 THEN [high |-> high, medium |-> medium]
       ELSE [high   |-> IF Abs(new_high - high) > ADJUST_MIN_CHANGE
                        THEN new_high ELSE high,
             medium |-> IF Abs(new_medium - medium) > ADJUST_MIN_CHANGE
                        THEN new_medium ELSE medium]

_determine_match_method(c) ==
    IF c.title > 85 THEN "title_high"
    ELSE IF c.title > 50 /\ c.authors > 50 THEN "title_authors"
    ELSE IF c.pages > 80 /\ c.title > 40 THEN "pages_title"
    ELSE "fallback"

\* _assign_match
_assign_match(st, pdfs, x, confidence) ==
    Assign(st, x.art, x.pdf, Filename(pdfs[x.pdf]), TRUE,
           MatchResult(x.art, x.pdf, Filename(pdfs[x.pdf]), x.score,
                       _determine_match_method(x.components), confidence,
                       x.components))

\* one iteration of the level-1 loop (high confidence, non-ambiguous)
\* variant without the ambiguity test of lines 1565-1566 (C7 must reject it)
HighStepAmbiguousToo(st, pdfs, x, amb, high) ==
    IF x.art \in st.local_matched_articles \/ x.pdf \in st.local_matched_pdfs THEN st
    ELSE IF x.score >= high THEN _assign_match(st, pdfs, x, "high")
    ELSE st
\* the loop body as written
HighStep(st, pdfs, x, amb, high) ==
    IF x.art \in st.local_matched_articles \/ x.pdf \in st.local_matched_pdfs THEN st
    ELSE IF x.art \in amb THEN st
    ELSE IF x.score >= high THEN _assign_match(st, pdfs, x, "high")
    ELSE st

\* one iteration of the level-2 loop (medium confidence, non-ambiguous)
MediumStep(st, pdfs, x, amb, medium, high) ==
    IF x.art \in st.local_matched_articles \/ x.pdf \in st.local_matched_pdfs THEN st
    ELSE IF x.art \in amb THEN st
    ELSE IF medium <= x.score /\ x.score < high THEN _assign_match(st, pdfs, x, "medium")
    ELSE st

RECURSIVE HighLoop(_, _, _, _, _, _)
HighLoop(st, pdfs, sp, amb, high, i) ==
    IF i > Len(sp) THEN st
    ELSE HighLoop(HighStep(st, pdfs, sp[i], amb, high), pdfs, sp, amb, high, i + 1)

RECURSIVE MediumLoop(_, _, _, _, _, _, _)
MediumLoop(st, pdfs, sp, amb, medium, high, i) ==
    IF i > Len(sp) THEN st
    ELSE MediumLoop(MediumStep(st, pdfs, sp[i], amb, medium, high),
                    pdfs, sp, amb, medium, high, i + 1)

\* one iteration of the level-3 loop over ambiguous_articles
Available(st, sp, a) ==
    SelectSeq(Candidates(sp, a), LAMBDA c : c.pdf \notin st.local_matched_pdfs)

\* variant without the low floor of line 1607 (C29 must reject it)
Level3StepNoFloor(st, pdfs, sp, a, low) ==
    LET available == Available(st, sp, a)
    IN IF a \in st.local_matched_articles THEN st
       ELSE IF Len(available) = 1
            THEN _assign_match(st, pdfs, available[1], "low")
            ELSE st
\* the loop body as written
Level3Step(st, pdfs, sp, a, low) ==
    LET available == Available(st, sp, a)
    IN IF a \in st.local_matched_articles THEN st
       ELSE IF Len(available) = 1 /\ available[1].score >= low
            THEN _assign_match(st, pdfs, available[1], "low")
            ELSE st

\* the level-3 loop, visiting the ambiguous articles in the order ord
RECURSIVE Level3Loop(_, _, _, _, _, _)
Level3Loop(st, pdfs, sp, ord, low, i) ==
    IF i > Len(ord) THEN st
    ELSE Level3Loop(Level3Step(st, pdfs, sp, ord[i], low), pdfs, sp, ord, low, i + 1)

\* the orders in which a set can be iterated
Orders(S) == {o \in [1..Cardinality(S) -> S] : \A i, j \in DOMAIN o : i # j => o[i] # o[j]}

\* ---------------------------------------------------------------------------
\* Report of process_zip
\* ---------------------------------------------------------------------------
Unmatched(a) ==
    MatchResult(a, 0, None, 0, "unmatched", "none", [reason |-> "no_suitable_pdf_found"])

\* the entries appended for the articles not in matched_articles
RECURSIVE UnmatchedEntries(_, _, _, _)
UnmatchedEntries(na, ma, a, acc) ==
    IF a > na THEN acc
    ELSE UnmatchedEntries(na, ma, a + 1, IF a \notin ma THEN Append(acc, Unmatched(a)) ELSE acc)

\* all_matches.sort(key=article_index): stable, ascending
InsertAsc(sorted, x) ==
    LET before == {i \in 1..Len(sorted) : sorted[i].article_index <= x.article_index}
        n == Cardinality(before)
    IN SubSeq(sorted, 1, n) \o <<x>> \o SubSeq(sorted, n + 1, Len(sorted))

RECURSIVE SortByIndex(_, _, _)
SortByIndex(s, i, acc) ==
    IF i > Len(s) THEN acc ELSE SortByIndex(s, i + 1, InsertAsc(acc, s[i]))

\* ---------------------------------------------------------------------------
\* Bundles: the archives process_zip is run on
\* ---------------------------------------------------------------------------
Article(edn, doi) == [edn |-> edn, doi |-> doi]
\* a PDFEntry together with the identifiers extract_pdf_metadata found in it
Pdf(arcname, edn, doi) == [arcname |-> arcname, edn |-> edn, doi |-> doi]

Bundle(arts, pdfs, cs) == [arts |-> arts, pdfs |-> pdfs, comps |-> cs]

ZeroComps(sh) == [a \in 1..sh[1] |-> [k \in 1..sh[2] |-> CompZero]]
\* PDF k is the text of article k: a strong title and author match
DiagComps(sh) == [a \in 1..sh[1] |-> [k \in 1..sh[2] |->
                    IF a = k THEN CompStrong ELSE CompZero]]

\* the archive members: member 2 may live in a sub-directory under the base
\* name of member 1
ArcName(k, clash) == IF k = 2 /\ clash THEN <<"sub", PdfBase[1]>> ELSE <<"", PdfBase[k]>>
Clashes(n) == IF n >= 2 THEN BOOLEAN ELSE {FALSE}

\* identifiers of the bundles whose articles and PDFs carry EDNs and DOIs
IdArticles == {Article(e, d) : e \in {None, EdnP}, d \in {NoDoi, DoiX, DoiY}}
IdPdfIds == {None, EdnP} \X {NoDoi, DoiShort, DoiX, DoiOrphan}
IdComps(sh) == {ZeroComps(sh), DiagComps(sh)}

\* identifiers of the bundles whose only identifiers are EDNs
EdnArticleSet == {Article(e, NoDoi) : e \in {None, EdnP, EdnQ}}
EdnPdfIds == {None, EdnP, EdnQ} \X {NoDoi}
\* these bundles are small: every size up to MaxArticles x MaxPdfs
EdnShapes == (1..MaxArticles) \X (1..MaxPdfs)

\* bundles without identifiers: only the fuzzy signals differ
NoIdArticles == {Article(None, NoDoi)}
NoPdfIds == {None} \X {NoDoi}
FuzzyProfiles == {CompZero,
                  Comp(25, 0, 100, 0),      \* 0.20
                  Comp(50, 0, 0, 0),        \* 0.30
                  Comp(50, 50, 100, 0),     \* 0.50
                  Comp(50, 50, 100, 40),    \* 0.52
                  Comp(100, 30, 0, 40),     \* 0.71
                  CompStrong}               \* 0.90
FuzzyComps(sh) == [1..sh[1] -> [1..sh[2] -> FuzzyProfiles]]

PdfEntries(ids, clash) ==
    [k \in 1..Len(ids) |-> Pdf(ArcName(k, clash), ids[k][1], ids[k][2])]

\* ---------------------------------------------------------------------------
\* State
\* ---------------------------------------------------------------------------
VARIABLES
    adaptive_thresholds,            \* PDFMatcher.adaptive_thresholds
    MIN_SCORE_HIGH_CONFIDENCE,      \* the matcher's high threshold
    MIN_SCORE_MEDIUM_CONFIDENCE,    \* the matcher's medium threshold
    MIN_SCORE_LOW_CONFIDENCE,       \* the matcher's low floor
    pc,                             \* position inside process_zip
    articles_info,                  \* process_zip: articles_info
    pdf_entries,                    \* process_zip: pdf_entries with pdf_metadata
    comps,                          \* component scores of every (article, PDF)
    files,                          \* manifest: file(desc=PDF) texts per article
    matched_articles,               \* process_zip: matched_articles
    matched_pdfs,                   \* process_zip: matched_pdfs
    matches_edn,
    matches_doi,
    matches_fallback,
    scored_pairs,                   \* _match_fallback locals
    ambiguous_articles,
    local_matched_articles,
    local_matched_pdfs,
    all_matches,                    \* the report's "matches"
    result,                         \* the report's counters
    zip_xml,                        \* the manifest inside the archive
    xml_on_disk,                    \* the manifest file extracted to disk
    arg,                            \* arguments passed to the function under study
    ret,                            \* what it returned
    users,                          \* the users table, by id
    sessions,                       \* ids that hold a login session
    requests                        \* admin requests between check and commit, by actor

matcher == <<adaptive_thresholds, MIN_SCORE_HIGH_CONFIDENCE, MIN_SCORE_MEDIUM_CONFIDENCE,
             MIN_SCORE_LOW_CONFIDENCE>>
bundle == <<articles_info, pdf_entries, comps>>
fallback_locals == <<scored_pairs, ambiguous_articles, local_matched_articles,
                     local_matched_pdfs>>
vars == <<adaptive_thresholds, MIN_SCORE_HIGH_CONFIDENCE, MIN_SCORE_MEDIUM_CONFIDENCE,
          MIN_SCORE_LOW_CONFIDENCE, pc, articles_info, pdf_entries, comps, files, matched_articles, matched_pdfs,
          matches_edn, matches_doi, matches_fallback, scored_pairs, ambiguous_articles,
          local_matched_articles, local_matched_pdfs, all_matches, result,
          zip_xml, xml_on_disk, arg, ret, users, sessions, requests>>
call == <<arg, ret>>
disk == <<zip_xml, xml_on_disk>>
web == <<users, sessions, requests>>

\* a manifest: whether the file exists, the <files> of each article, and
\* whether the text is the pretty-printed serialization of tree.write
Manifest(articles, pretty) == [present |-> TRUE, articles |-> articles, pretty |-> pretty]
NoXml == [present |-> FALSE, articles |-> <<>>, pretty |-> FALSE]

NoResult == [total_articles |-> 0, matched_articles |-> 0, unmatched_articles |-> 0]

\* the users table: ids 1..MaxUsers, a row per id that was ever created
MaxUsers == 3
UserIds == 1..MaxUsers
User(is_admin, is_active) == [exists |-> TRUE, is_admin |-> is_admin, is_active |-> is_active]
NoUser == [exists |-> FALSE, is_admin |-> FALSE, is_active |-> FALSE]
NoRequest == [op |-> "none", target |-> 0, value |-> FALSE]
\* init_db: the tables and the default administrator
init_db ==
    /\ users = [u \in UserIds |-> IF u = 1 THEN User(TRUE, TRUE) ELSE NoUser]
    /\ sessions = {}
    /\ requests = [u \in UserIds |-> NoRequest]

\* no run in progress: nothing but the matcher's own attributes
Idle == /\ pc = "idle"
        /\ articles_info = <<>> /\ pdf_entries = <<>> /\ comps = <<>> /\ files = <<>>
        /\ matched_articles = {} /\ matched_pdfs = {}
        /\ matches_edn = <<>> /\ matches_doi = <<>> /\ matches_fallback = <<>>
        /\ scored_pairs = <<>> /\ ambiguous_articles = {}
        /\ local_matched_articles = {} /\ local_matched_pdfs = {}
        /\ all_matches = <<>> /\ result = NoResult
        /\ zip_xml = NoXml /\ xml_on_disk = NoXml
        /\ arg = <<>> /\ ret = <<>>
        /\ init_db

\* PDFMatcher.__init__
InitMatcher(adaptive) ==
    /\ adaptive_thresholds \in adaptive
    /\ MIN_SCORE_HIGH_CONFIDENCE = DEFAULT_MIN_SCORE_HIGH_CONFIDENCE
    /\ MIN_SCORE_MEDIUM_CONFIDENCE = DEFAULT_MIN_SCORE_MEDIUM_CONFIDENCE
    /\ MIN_SCORE_LOW_CONFIDENCE = DEFAULT_MIN_SCORE_LOW_CONFIDENCE
    /\ Idle

\* PDFMatcher() as the web handler constructs it
Init == InitMatcher({TRUE})
InitAny == InitMatcher(BOOLEAN)

\* ---------------------------------------------------------------------------
\* process_zip, step by step
\* ---------------------------------------------------------------------------
\* extraction, parsing, cleanup of old references (cleanup_old = True)
StartRunFrom(b, xml, cleanup_old) ==
    /\ xml.present /\ b.pdfs # <<>> /\ b.arts # <<>>
    /\ articles_info' = b.arts
    /\ pdf_entries' = b.pdfs
    /\ comps' = b.comps
    /\ zip_xml' = xml
    /\ xml_on_disk' = xml
    /\ files' = IF cleanup_old THEN cleanup_pdf_files_in_articles(xml.articles)
                 ELSE xml.articles
    /\ pc' = "edn"
    /\ UNCHANGED <<web, call, matcher, matched_articles, matched_pdfs, matches_edn, matches_doi,
                   matches_fallback, fallback_locals, all_matches, result>>

\* a manifest without file references, cleanup_old left at its default
StartRun(b) == StartRunFrom(b, Manifest([a \in 1..Len(b.arts) |-> <<>>], FALSE), TRUE)

\* process_zip on a bundle with EDNs and DOIs
ProcessZipIds ==
    /\ pc = "idle"
    /\ \E sh \in Shapes : \E arts \in [1..sh[1] -> IdArticles] :
         \E ids \in [1..sh[2] -> IdPdfIds] : \E clash \in Clashes(sh[2]) :
           \E cs \in IdComps(sh) : StartRun(Bundle(arts, PdfEntries(ids, clash), cs))

\* process_zip on a bundle with EDNs only
ProcessZipEdn ==
    /\ pc = "idle"
    /\ \E sh \in EdnShapes : \E arts \in [1..sh[1] -> EdnArticleSet] :
         \E ids \in [1..sh[2] -> EdnPdfIds] :
           \E cs \in IdComps(sh) : StartRun(Bundle(arts, PdfEntries(ids, FALSE), cs))

\* process_zip on a bundle without identifiers
ProcessZipFuzzy ==
    /\ pc = "idle"
    /\ \E sh \in Shapes : \E arts \in [1..sh[1] -> NoIdArticles] :
         \E ids \in [1..sh[2] -> NoPdfIds] :
           \E cs \in FuzzyComps(sh) : StartRun(Bundle(arts, PdfEntries(ids, FALSE), cs))

\* Phase 0
MatchByEdn ==
    /\ pc = "edn"
    /\ LET st == EdnLoop(PhaseState(files, {}, {}, {}, {}, <<>>),
                         articles_info, pdf_entries, 1)
       IN /\ files' = st.files
          /\ matched_articles' = st.matched_articles
          /\ matched_pdfs' = st.matched_pdfs
          /\ matches_edn' = st.matches
    /\ pc' = "doi"
    /\ UNCHANGED <<web, call, disk, matcher, bundle, matches_doi, matches_fallback, fallback_locals,
                   all_matches, result>>

\* Phase 1: _match_by_doi rebinds matched_articles and matched_pdfs to new
\* empty sets (lines 1343-1344) and process_zip takes the sets it returns
MatchByDoi ==
    /\ pc = "doi"
    /\ LET st == DoiLoop(PhaseState(files, {}, {}, {}, {}, <<>>),
                         articles_info, pdf_entries, 1)
       IN /\ files' = st.files
          /\ matched_articles' = st.matched_articles
          /\ matched_pdfs' = st.matched_pdfs
          /\ matches_doi' = st.matches
    /\ pc' = "fallback"
    /\ UNCHANGED <<web, call, disk, matcher, bundle, matches_edn, matches_fallback, fallback_locals,
                   all_matches, result>>

\* Phase 2, up to the margin rule: scoring, sorting, threshold adjustment,
\* ambiguity detection
FallbackScore ==
    /\ pc = "fallback"
    /\ LET sp == SortDesc(ScorePairs(Len(articles_info), Len(pdf_entries), comps,
                                     matched_articles, matched_pdfs, 0, <<>>), 1, <<>>)
           th == IF adaptive_thresholds /\ sp # <<>>
                 THEN _adjust_thresholds([i \in 1..Len(sp) |-> sp[i].score],
                                         MIN_SCORE_HIGH_CONFIDENCE,
                                         MIN_SCORE_MEDIUM_CONFIDENCE)
                 ELSE [high |-> MIN_SCORE_HIGH_CONFIDENCE,
                       medium |-> MIN_SCORE_MEDIUM_CONFIDENCE]
       IN /\ scored_pairs' = sp
          /\ MIN_SCORE_HIGH_CONFIDENCE' = th.high
          /\ MIN_SCORE_MEDIUM_CONFIDENCE' = th.medium
          /\ ambiguous_articles' = AmbiguousArticles(sp)
    /\ local_matched_articles' = {}
    /\ local_matched_pdfs' = {}
    /\ pc' = "level1"
    /\ UNCHANGED <<web, call, disk, adaptive_thresholds, MIN_SCORE_LOW_CONFIDENCE, bundle, files, matched_articles, matched_pdfs,
                   matches_edn, matches_doi, matches_fallback, all_matches, result>>

FallbackState ==
    PhaseState(files, matched_articles, matched_pdfs, local_matched_articles,
               local_matched_pdfs, matches_fallback)

SetFallbackState(st) ==
    /\ files' = st.files
    /\ matched_articles' = st.matched_articles
    /\ matched_pdfs' = st.matched_pdfs
    /\ local_matched_articles' = st.local_matched_articles
    /\ local_matched_pdfs' = st.local_matched_pdfs
    /\ matches_fallback' = st.matches

\* Phase 2, level 1: greedy pass over the high-confidence pairs
GreedyHigh ==
    /\ pc = "level1"
    /\ SetFallbackState(HighLoop(FallbackState, pdf_entries, scored_pairs,
                                 ambiguous_articles, MIN_SCORE_HIGH_CONFIDENCE, 1))
    /\ pc' = "level2"
    /\ UNCHANGED <<web, call, disk, matcher, bundle, matches_edn, matches_doi, scored_pairs,
                   ambiguous_articles, all_matches, result>>

\* Phase 2, level 2: greedy pass over the medium-confidence pairs
GreedyMedium ==
    /\ pc = "level2"
    /\ SetFallbackState(MediumLoop(FallbackState, pdf_entries, scored_pairs,
                                   ambiguous_articles, MIN_SCORE_MEDIUM_CONFIDENCE,
                                   MIN_SCORE_HIGH_CONFIDENCE, 1))
    /\ pc' = "level3"
    /\ UNCHANGED <<web, call, disk, matcher, bundle, matches_edn, matches_doi, scored_pairs,
                   ambiguous_articles, all_matches, result>>

\* Phase 2, level 3: the ambiguous articles, in the iteration order of the set
Level3 ==
    /\ pc = "level3"
    /\ \E ord \in Orders(ambiguous_articles) :
         SetFallbackState(Level3Loop(FallbackState, pdf_entries, scored_pairs, ord,
                                     MIN_SCORE_LOW_CONFIDENCE, 1))
    /\ pc' = "report"
    /\ UNCHANGED <<web, call, disk, matcher, bundle, matches_edn, matches_doi, scored_pairs,
                   ambiguous_articles, all_matches, result>>

\* the report: all matches, the unmatched articles, sorted by article index
Report ==
    /\ pc = "report"
    /\ all_matches' =
         SortByIndex(matches_edn \o matches_doi \o matches_fallback
                     \o UnmatchedEntries(Len(articles_info), matched_articles, 1, <<>>),
                     1, <<>>)
    /\ result' = [total_articles |-> Len(articles_info),
                  matched_articles |-> Cardinality(matched_articles),
                  unmatched_articles |-> Len(articles_info) - Cardinality(matched_articles)]
    /\ xml_on_disk' = Manifest(files, TRUE)
    /\ pc' = "done"
    /\ UNCHANGED <<web, call, zip_xml, matcher, bundle, files, matched_articles, matched_pdfs, matches_edn,
                   matches_doi, matches_fallback, fallback_locals>>

\* process_zip returns; the matcher keeps only its own attributes
Return ==
    /\ pc = "done"
    /\ pc' = "idle"
    /\ articles_info' = <<>> /\ pdf_entries' = <<>> /\ comps' = <<>> /\ files' = <<>>
    /\ matched_articles' = {} /\ matched_pdfs' = {}
    /\ matches_edn' = <<>> /\ matches_doi' = <<>> /\ matches_fallback' = <<>>
    /\ scored_pairs' = <<>> /\ ambiguous_articles' = {}
    /\ local_matched_articles' = {} /\ local_matched_pdfs' = {}
    /\ all_matches' = <<>> /\ result' = NoResult
    /\ zip_xml' = NoXml /\ xml_on_disk' = NoXml
    /\ UNCHANGED <<web, call, matcher>>

Steps == \/ MatchByEdn \/ MatchByDoi \/ FallbackScore \/ GreedyHigh \/ GreedyMedium
         \/ Level3 \/ Report \/ Return

Next == ProcessZipIds \/ Steps
NextEdn == ProcessZipEdn \/ Steps
NextFuzzy == ProcessZipFuzzy \/ Steps

\* bundles with EDNs and DOIs, default matcher
Spec == Init /\ [][Next]_vars
\* bundles with EDNs only
SpecEdn == Init /\ [][NextEdn]_vars
\* bundles without identifiers, adaptive thresholds on or off
SpecFuzzy == InitAny /\ [][NextFuzzy]_vars

\* ---------------------------------------------------------------------------
\* The manifest writer on its own
\* ---------------------------------------------------------------------------
MaxCalls == 3
MaxFiles == 2

\* everything process_zip owns, untouched when a function is studied alone
run == <<matcher, bundle, matched_articles, matched_pdfs, matches_edn, matches_doi,
         matches_fallback, fallback_locals, all_matches, result>>
Blank ==
    /\ adaptive_thresholds = TRUE
    /\ MIN_SCORE_HIGH_CONFIDENCE = DEFAULT_MIN_SCORE_HIGH_CONFIDENCE
    /\ MIN_SCORE_MEDIUM_CONFIDENCE = DEFAULT_MIN_SCORE_MEDIUM_CONFIDENCE
    /\ MIN_SCORE_LOW_CONFIDENCE = DEFAULT_MIN_SCORE_LOW_CONFIDENCE
    /\ articles_info = <<>> /\ pdf_entries = <<>> /\ comps = <<>>
    /\ matched_articles = {} /\ matched_pdfs = {}
    /\ matches_edn = <<>> /\ matches_doi = <<>> /\ matches_fallback = <<>>
    /\ scored_pairs = <<>> /\ ambiguous_articles = {}
    /\ local_matched_articles = {} /\ local_matched_pdfs = {}
    /\ all_matches = <<>> /\ result = NoResult
    /\ init_db

\* desc attributes met in manifests: PDF in two spellings, another kind of
\* file, no attribute
Descs == {DescPdf, <<" ", "p", "d", "f", " ">>, <<"X", "M", "L">>, <<>>}
OldTexts == {"old.pdf", PdfBase[1]}
FileElems == {FileElem(d, t) : d \in Descs, t \in OldTexts}
\* the <files> an article may hold before the run
StartFiles == UNION {[1..n -> FileElems] : n \in 0..MaxFiles}
FileNames == {PdfBase[1], PdfBase[2]}

\* one article element; arg is the list of file names passed so far
InitWriter ==
    /\ Blank
    /\ pc = "writer"
    /\ \E fs \in StartFiles : /\ files = <<fs>>
                               /\ zip_xml = Manifest(<<fs>>, FALSE)
    /\ xml_on_disk = NoXml
    /\ arg = <<>> /\ ret = <<>>

\* matcher.set_pdf_file_in_article(article_elem, pdf_filename)
SetPdfFile ==
    /\ pc = "writer"
    /\ Len(arg) < MaxCalls
    /\ \E name \in FileNames :
         /\ files' = [files EXCEPT ![1] = set_pdf_file_in_article(@, name)]
         /\ arg' = Append(arg, name)
    /\ UNCHANGED <<web, run, pc, disk, ret>>

NextWriter == SetPdfFile
SpecWriter == InitWriter /\ [][NextWriter]_vars

\* ---------------------------------------------------------------------------
\* process_zip on manifests that already hold file references
\* ---------------------------------------------------------------------------
\* at most two articles; a PDF matches the article of its own index or nothing
ManifestShapes == {sh \in Shapes : sh[1] <= 2}
\* references left by an earlier run or by hand
OldFileElems == {FileElem(d, "old.pdf") : d \in Descs}
OldFiles == UNION {[1..n -> OldFileElems] : n \in 0..MaxFiles}

\* process_zip(zip_path, extract_to, cleanup_old) on such an archive
ProcessZipManifest ==
    /\ pc = "idle"
    /\ \E sh \in ManifestShapes : \E old \in [1..sh[1] -> OldFiles] :
         \E cleanup_old \in BOOLEAN : \E cs \in IdComps(sh) :
           StartRunFrom(Bundle([a \in 1..sh[1] |-> Article(None, NoDoi)],
                               PdfEntries([k \in 1..sh[2] |-> <<None, NoDoi>>], FALSE), cs),
                        Manifest(old, FALSE), cleanup_old)

NextManifest == ProcessZipManifest \/ Steps
SpecManifest == Init /\ [][NextManifest]_vars

\* ---------------------------------------------------------------------------
\* process_zip on archives it rejects
\* ---------------------------------------------------------------------------
\* the ValueError of extract_zip (no XML member) and of process_zip (no PDF
\* member, no article element): the members are on disk as extracted, nothing
\* has been parsed, cleaned or written
RaiseAfterCleanup(b, xml, cleanup_old) ==
    /\ ~xml.present \/ b.pdfs = <<>> \/ b.arts = <<>>
    /\ zip_xml' = xml
    /\ xml_on_disk' = IF xml.present
                       THEN Manifest(cleanup_pdf_files_in_articles(xml.articles), TRUE)
                       ELSE xml
    /\ pdf_entries' = IF xml.present THEN b.pdfs ELSE <<>>
    /\ pc' = "raised"
    /\ UNCHANGED <<web, call, matcher, articles_info, comps, files, matched_articles,
                   matched_pdfs, matches_edn, matches_doi, matches_fallback,
                   fallback_locals, all_matches, result>>
RaiseFrom(b, xml, cleanup_old) ==
    /\ ~xml.present \/ b.pdfs = <<>> \/ b.arts = <<>>
    /\ zip_xml' = xml
    /\ xml_on_disk' = xml
    /\ pdf_entries' = IF xml.present THEN b.pdfs ELSE <<>>
    /\ pc' = "raised"
    /\ UNCHANGED <<web, call, matcher, articles_info, comps, files, matched_articles,
                   matched_pdfs, matches_edn, matches_doi, matches_fallback,
                   fallback_locals, all_matches, result>>

\* the manifests of the archives: none, or up to two articles with old references
ArchiveXmls ==
    {NoXml} \cup {Manifest(old, FALSE) : old \in UNION {[1..n -> OldFiles] : n \in 0..2}}

\* process_zip on any archive: it starts the run or raises
ProcessZipArchive ==
    /\ pc = "idle"
    /\ \E xml \in ArchiveXmls : \E np \in 0..2 : \E cleanup_old \in BOOLEAN :
         LET sh == <<Len(xml.articles), np>>
             b  == Bundle([a \in 1..sh[1] |-> Article(None, NoDoi)],
                          PdfEntries([k \in 1..np |-> <<None, NoDoi>>], FALSE),
                          DiagComps(sh))
         IN \/ StartRunFrom(b, xml, cleanup_old)
            \/ RaiseFrom(b, xml, cleanup_old)

\* the exception reaches the caller of process_zip
Propagate ==
    /\ pc = "raised"
    /\ pc' = "idle"
    /\ pdf_entries' = <<>>
    /\ zip_xml' = NoXml /\ xml_on_disk' = NoXml
    /\ UNCHANGED <<web, call, matcher, articles_info, comps, files, matched_articles,
                   matched_pdfs, matches_edn, matches_doi, matches_fallback,
                   fallback_locals, all_matches, result>>

NextArchive == ProcessZipArchive \/ Propagate \/ Steps
SpecArchive == Init /\ [][NextArchive]_vars

\* ---------------------------------------------------------------------------
\* normalize_doi and normalize_edn on their own
\* ---------------------------------------------------------------------------
MaxTokens == 3

\* the concatenations of at most n pieces
RECURSIVE Concats(_, _)
Concats(pieces, n) ==
    IF n = 0 THEN {<<>>}
    ELSE LET shorter == Concats(pieces, n - 1)
         IN shorter \cup {s \o p : s \in shorter, p \in pieces}

\* pieces of the strings DOIs are read from: labels, resolver URLs, a DOI in
\* lower and in upper case, trailing punctuation, whitespace
DoiPieces ==
    {<<"d", "o", "i", ":">>,
     <<"D", "O", "I", ":", " ">>,
     <<"D", "o", "i", ":">>,
     <<"h", "t", "t", "p", "s", ":", "/", "/", "d", "o", "i", ".", "o", "r", "g", "/">>,
     <<"H", "T", "T", "P", "S", ":", "/", "/", "D", "O", "I", ".", "O", "R", "G", "/">>,
     <<"d", "x", ".", "d", "o", "i", ".", "o", "r", "g", "/">>,
     <<"1", "0", ".", "1", "2", "3", "4", "/", "a", "b", "c">>,
     <<"1", "0", ".", "1", "2", "3", "4", "/", "A", "B", "C">>,
     <<".">>,
     <<" ", ")">>,
     <<" ">>}
\* pieces of the strings EDNs are read from
EdnPieces ==
    {<<"e", "d", "n">>,
     <<"E", "D", "N", ":", " ">>,
     <<"E", "d", "n", ":">>,
     <<"a", "b", "c">>,
     <<"X", "Y", "9">>,
     <<"1", "z">>,
     <<"-">>,
     <<" ">>}

\* arg is the list of the arguments passed so far, ret the last value returned
InitNormalize ==
    /\ Blank
    /\ files = <<>> /\ zip_xml = NoXml /\ xml_on_disk = NoXml
    /\ ret = <<>>
    /\ \/ pc = "doi_in" /\ \E x \in Concats(DoiPieces, MaxTokens) : arg = <<x>>
       \/ pc = "edn_in" /\ \E x \in Concats(EdnPieces, MaxTokens) : arg = <<x>>

\* d = matcher.normalize_doi(x)
NormalizeDoi ==
    /\ pc = "doi_in"
    /\ ret' = normalize_doi(arg[1])
    /\ pc' = "doi_out"
    /\ UNCHANGED <<web, run, files, disk, arg>>
\* matcher.normalize_doi(d)
NormalizeDoiAgain ==
    /\ pc = "doi_out"
    /\ arg' = Append(arg, ret)
    /\ ret' = normalize_doi(ret)
    /\ pc' = "doi_again"
    /\ UNCHANGED <<web, run, files, disk>>
\* e = matcher.normalize_edn(x)
NormalizeEdn ==
    /\ pc = "edn_in"
    /\ ret' = normalize_edn(arg[1])
    /\ pc' = "edn_out"
    /\ UNCHANGED <<web, run, files, disk, arg>>
\* matcher.normalize_edn(e)
NormalizeEdnAgain ==
    /\ pc = "edn_out"
    /\ arg' = Append(arg, ret)
    /\ ret' = normalize_edn(ret)
    /\ pc' = "edn_again"
    /\ UNCHANGED <<web, run, files, disk>>

NextNormalize == NormalizeDoi \/ NormalizeDoiAgain \/ NormalizeEdn \/ NormalizeEdnAgain
SpecNormalize == InitNormalize /\ [][NextNormalize]_vars

\* ---------------------------------------------------------------------------
\* calculate_title_similarity on its own
\* ---------------------------------------------------------------------------
MaxWords == 2

\* pieces of titles: words that share letters, a short word, upper case,
\* punctuation
TitlePieces ==
    {<<"a", "b", "c", "d", " ">>,
     <<"a", "b", "c", "e", " ">>,
     <<"A", "B", "C", "D", ",">>,
     <<"x", "y", "z", " ">>,
     <<"a", "b", " ">>,
     <<"?", "!">>,
     <<"e", "f", "g", "h", " ">>}
Titles == Concats(TitlePieces, MaxWords)

InitTitle ==
    /\ Blank
    /\ files = <<>> /\ zip_xml = NoXml /\ xml_on_disk = NoXml
    /\ ret = <<>>
    /\ pc = "title_in"
    /\ \E t1 \in Titles, t2 \in Titles : arg = <<t1, t2>>

\* matcher.calculate_title_similarity(t1, t2)
CalculateTitleSimilarity ==
    /\ pc = "title_in"
    /\ ret' = <<calculate_title_similarity(arg[1], arg[2])>>
    /\ pc' = "title_out"
    /\ UNCHANGED <<web, run, files, disk, arg>>

NextTitle == CalculateTitleSimilarity
SpecTitle == InitTitle /\ [][NextTitle]_vars

\* ---------------------------------------------------------------------------
\* _calculate_combined_score on its own
\* ---------------------------------------------------------------------------
PdfTitles == {<<>>, <<"A", "B", "C", "D", " ", "E", "F", "G", "H">>, <<"a", "b", "c", "d", ",", " ", "e", "f", "g", "h", "?">>, <<"w", "x", "y", "z">>}
RusTitles == {<<>>, <<"A", "b", "c", "d", " ", "e", "f", "g", "h">>}
EngTitles == {<<>>, <<"w", "x", "y", "z", " ", "a", "b", "c", "d">>}
PdfAuthors == {<<>>, <<<<"I", "v", "a", "n", "o", "v", " ", "I", ".">>>>, <<<<"I", "v", "a", "n", "o", "v", "a", ",", " ", "A", ".">>, <<"P", "e", "t", "r", "o", "v", " ", "P", ".">>>>}
RusAuthors == {<<>>, <<<<"i", "v", "a", "n", "o", "v">>>>, <<<<"I", "v", "a", "n", "o", "v">>, <<"P", "e", "t", "r", "o", "v">>>>}
PagesValues == {None, <<3, 9>>}
PdfNames == {<<"1", ".", "p", "d", "f">>,
             <<"3", "-", "9", ".", "p", "d", "f">>,
             <<"3", "[", "-", EnDash, EmDash, "]", "9", ".", "p", "d", "f">>,
             <<"a", "b", "c", "d", " ", "e", "f", "g", "h", ".", "p", "d", "f">>,
             <<"d", "i", "r", "/", "a", "b", "c", "d", "_", "e", "f", "g", "h", ".", "v", "2", ".", "p", "d", "f">>}
PdfMetas == [title : PdfTitles, authors : PdfAuthors]
Articles == [title_rus : RusTitles, title_eng : EngTitles, authors_rus : RusAuthors,
             authors_eng : {<<>>}, pages : PagesValues]

InitScore ==
    /\ Blank
    /\ files = <<>> /\ zip_xml = NoXml /\ xml_on_disk = NoXml
    /\ ret = <<>>
    /\ pc = "score_in"
    /\ \E pdf_meta \in PdfMetas, article \in Articles, pdf_name \in PdfNames :
         arg = <<pdf_meta, article, pdf_name>>

\* total_score, components = matcher._calculate_combined_score(pdf_meta, article, pdf_name)
CalculateCombinedScore ==
    /\ pc = "score_in"
    /\ LET components == Components(arg[1], arg[2], arg[3])
       IN ret' = <<_calculate_combined_score(components), components>>
    /\ pc' = "score_out"
    /\ UNCHANGED <<web, run, files, disk, arg>>

NextScore == CalculateCombinedScore
SpecScore == InitScore /\ [][NextScore]_vars

\* ---------------------------------------------------------------------------
\* process_zip on manifests whose articles carry codes: get_article_info
\* ---------------------------------------------------------------------------
MaxXmlArticles == 2

\* An article element is the list, in document order, of its descendants that
\* carry text; path is the list of tags leading from the article to the element
Elem(path, text) == [path |-> path, text |-> text]
\* article_elem.find(".//codes/<tag>"): the position of the first <tag> whose
\* parent is a <codes>, at any depth below the article (0 if there is none)
Find(article_elem, tag) ==
    LET hits == {i \in 1..Len(article_elem) :
                   LET p == article_elem[i].path
                   IN Len(p) >= 2 /\ p[Len(p)] = tag /\ p[Len(p) - 1] = "codes"}
    IN IF hits = {} THEN 0 ELSE CHOOSE i \in hits : \A j \in hits : i <= j
\* the element's text when it exists and is not blank
CodeText(article_elem, tag) ==
    LET i == Find(article_elem, tag)
    IN IF i # 0 /\ Strip(article_elem[i].text) # <<>> THEN article_elem[i].text ELSE <<>>

\* the EDN strings of the bundles, character by character
EdnChars ==
    [s \in {EdnP, EdnQ, "ABC12"} |->
       IF s = EdnP THEN <<"A", "B", "C", "1", "2", "3">>
       ELSE IF s = EdnQ THEN <<"X", "Y", "Z", "7", "8", "9">>
       ELSE <<"A", "B", "C", "1", "2">>]
\* the str made of the characters e (None for the empty, falsy string)
EdnName(e) == IF e = <<>> THEN None ELSE CHOOSE s \in DOMAIN EdnChars : EdnChars[s] = e

\* the identifiers of ArticleInfo
get_article_info(article_elem) ==
    LET doi_text == CodeText(article_elem, "doi")
        edn_text == CodeText(article_elem, "edn")
    IN Article(IF edn_text # <<>> THEN EdnName(normalize_edn(edn_text)) ELSE None,
               IF doi_text # <<>> THEN normalize_doi(doi_text) ELSE NoDoi)

\* articles with or without a DOI of their own, an EDN field of six, seven or
\* five characters, and a reference-list entry that carries a DOI
OwnDoiElems == {<<>>, <<Elem(<<"codes", "doi">>, DoiX)>>}
EdnElems ==
    {<<>>} \cup {<<Elem(<<"codes", "edn">>, t)>> :
                   t \in {<<"A", "B", "C", "1", "2", "3">>,
                          <<"a", "b", "c", "1", "2", "3", "4">>,
                          <<"A", "B", "C", "1", "2">>}}
RefDoiElems ==
    {<<>>, <<Elem(<<"references", "reference", "codes", "doi">>,
                  <<"D", "O", "I", ":", " ", "1", "0", ".", "1", "2", "3", "4", "/", "A", "B", "C", "D">>)>>}
ArticleElems == {d \o e \o r : d \in OwnDoiElems, e \in EdnElems, r \in RefDoiElems}
XmlPdfIds == {None, EdnP} \X {NoDoi, DoiX, DoiY}

\* the manifest of the archive: the article elements, none with a file
XmlManifest(elems) ==
    [present |-> TRUE, articles |-> [a \in 1..Len(elems) |-> <<>>], pretty |-> FALSE,
     elements |-> elems]

ProcessZipXml ==
    /\ pc = "idle"
    /\ \E n \in 1..MaxXmlArticles : \E elems \in [1..n -> ArticleElems] :
         \E ids \in [1..1 -> XmlPdfIds] : \E cs \in IdComps(<<n, 1>>) :
           StartRunFrom(Bundle([a \in 1..n |-> get_article_info(elems[a])],
                               PdfEntries(ids, FALSE), cs),
                        XmlManifest(elems), TRUE)

NextXml == ProcessZipXml \/ Steps
SpecXml == Init /\ [][NextXml]_vars

\* ---------------------------------------------------------------------------
\* extract_pdf_metadata over the PDFs of a bundle
\* ---------------------------------------------------------------------------
MaxBatch == 2

\* PDFMetadata()
PDFMetadata(title, authors, doi, edn, quality) ==
    [title |-> title, authors |-> authors, doi |-> doi, edn |-> edn,
     extraction_quality |-> quality]
NoMetadata == PDFMetadata(None, <<>>, NoDoi, None, "unknown")

\* A PDF file as the reader sees it: the call that raises (if any), the title
\* and authors of the document information that pass the quality filters, and
\* what extract_doi_from_text, extract_edn_from_text, _extract_title_from_text
\* and _extract_authors_from_text find in the text of the first pages
PdfFile(fails, doc, text) == [fails |-> fails, doc |-> doc, text |-> text]
\* PdfReader(f) and reader.metadata raise before any field is set,
\* len(reader.pages) after the document information has been read
FailurePoints == {"never", "open", "metadata", "pages"}
DocInfos == {[title |-> None, authors |-> <<>>],
             [title |-> "Doc title", authors |-> <<>>],
             [title |-> "Doc title", authors |-> <<"Ivanov I.">>]}
PageTexts == {[doi |-> NoDoi, edn |-> None, title |-> None, authors |-> <<>>],
              [doi |-> DoiX, edn |-> EdnP, title |-> None, authors |-> <<>>],
              [doi |-> NoDoi, edn |-> None, title |-> "Text title", authors |-> <<"Petrov P.">>]}
PdfFiles == {PdfFile(f, d, t) : f \in FailurePoints, d \in DocInfos, t \in PageTexts}

\* meta after the document information has been read
WithDocInfo(meta, doc) ==
    [meta EXCEPT !.title = doc.title, !.authors = doc.authors]
\* meta after the text has been searched: identifiers from the text, title and
\* authors from the text only when the document information gave none
WithText(meta, text) ==
    [meta EXCEPT !.doi = text.doi, !.edn = text.edn,
                 !.title = IF meta.title = None THEN text.title ELSE meta.title,
                 !.authors = IF meta.authors = <<>> THEN text.authors ELSE meta.authors]
QualityScore(meta) ==
    (IF meta.doi # NoDoi THEN 3 ELSE 0) + (IF meta.edn # None THEN 3 ELSE 0)
    + (IF meta.title # None THEN 2 ELSE 0) + (IF meta.authors # <<>> THEN 1 ELSE 0)
WithQuality(meta) ==
    [meta EXCEPT !.extraction_quality =
       IF QualityScore(meta) >= 5 THEN "high"
       ELSE IF QualityScore(meta) >= 3 THEN "medium" ELSE "low"]
\* the except clause: meta as it stands when the exception arrives
OnError(meta) == [meta EXCEPT !.extraction_quality = "error"]

extract_pdf_metadata(pdf, PDF_SUPPORT) ==
    IF ~PDF_SUPPORT THEN [NoMetadata EXCEPT !.extraction_quality = "no_support"]
    ELSE IF pdf.fails \in {"open", "metadata"} THEN OnError(NoMetadata)
    ELSE IF pdf.fails = "pages" THEN OnError(WithDocInfo(NoMetadata, pdf.doc))
    ELSE WithQuality(WithText(WithDocInfo(NoMetadata, pdf.doc), pdf.text))

\* arg is <<PDF_SUPPORT, the PDF files of the bundle>>, ret the metadata
\* extracted so far
InitPdf ==
    /\ Blank
    /\ files = <<>> /\ zip_xml = NoXml /\ xml_on_disk = NoXml
    /\ ret = <<>>
    /\ pc = "extract"
    /\ \E support \in BOOLEAN : \E n \in 1..MaxBatch : \E pdfs \in [1..n -> PdfFiles] :
         arg = <<support, pdfs>>

\* one iteration of "for pe in pdf_entries" in process_zip
ExtractPdfMetadata ==
    /\ pc = "extract"
    /\ Len(ret) < Len(arg[2])
    /\ ret' = Append(ret, extract_pdf_metadata(arg[2][Len(ret) + 1], arg[1]))
    /\ UNCHANGED <<web, run, files, disk, arg, pc>>

NextPdf == ExtractPdfMetadata
SpecPdf == InitPdf /\ [][NextPdf]_vars

\* ---------------------------------------------------------------------------
\* Validator.validate_file (ipsas/modules/validator.py)
\* ---------------------------------------------------------------------------
\* What the file system answers for a path: whether the directories leading
\* to it may be searched, what the path names, its suffix and size, whether
\* stat succeeds once is_file has answered, and what reading one character
\* of it as UTF-8 text gives
FsPath(searchable, kind, suffix, size, stat_ok, content) ==
    [searchable |-> searchable, kind |-> kind, suffix |-> suffix, size |-> size,
     stat_ok |-> stat_ok, content |-> content]
FsPaths ==
    {FsPath(s, k, x, z, st, c) :
       s \in BOOLEAN, k \in {"missing", "directory", "file"},
       x \in {<<>>, <<".", "T", "X", "T">>, <<".", "p", "d", "f">>}, z \in {0, 5},
       st \in BOOLEAN, c \in {"text", "not utf-8", "denied"}}

Results(exists, is_file, is_readable, size, extension, valid, errors) ==
    [exists |-> exists, is_file |-> is_file, is_readable |-> is_readable, size |-> size,
     extension |-> extension, valid |-> valid, errors |-> errors]
\* Path.exists(): stat's ENOENT and ENOTDIR mean False; before Python 3.13 any
\* other OSError (EACCES on a directory that may not be searched) is raised,
\* from 3.13 on it means False as well
ExistsOutcomes(path) ==
    IF ~path.searchable THEN {"raise", "False"}
    ELSE IF path.kind = "missing" THEN {"False"} ELSE {"True"}
\* the value returned, or "raise", for one outcome of Path.exists()
validate_file(path, exists) ==
    IF exists = "raise" THEN "raise"
    ELSE IF exists = "False"
         THEN Results(FALSE, FALSE, FALSE, 0, <<>>, FALSE, <<"no such file">>)
    ELSE IF path.kind # "file"
         THEN Results(TRUE, FALSE, FALSE, 0, <<>>, FALSE, <<"not a file">>)
    ELSE IF ~path.stat_ok
         THEN Results(TRUE, TRUE, FALSE, 0, Lower(path.suffix), FALSE, <<"size error">>)
    ELSE IF path.content # "text"
         THEN Results(TRUE, TRUE, FALSE, path.size, Lower(path.suffix), FALSE,
                      <<"not readable">>)
    ELSE Results(TRUE, TRUE, TRUE, path.size, Lower(path.suffix), TRUE, <<>>)

InitValidator ==
    /\ Blank
    /\ files = <<>> /\ zip_xml = NoXml /\ xml_on_disk = NoXml
    /\ ret = <<>>
    /\ pc = "validate_in"
    /\ \E path \in FsPaths : arg = <<path>>

\* validator.validate_file(file_path)
ValidateFile ==
    /\ pc = "validate_in"
    /\ \E exists \in ExistsOutcomes(arg[1]) :
         IF exists = "raise"
         THEN pc' = "validate_raised" /\ ret' = ret
         ELSE pc' = "validate_out" /\ ret' = <<validate_file(arg[1], exists)>>
    /\ UNCHANGED <<web, run, files, disk, arg>>

NextValidator == ValidateFile
SpecValidator == InitValidator /\ [][NextValidator]_vars

\* ---------------------------------------------------------------------------
\* extract_doi_from_text: the choice among the DOI candidates of a text
\* ---------------------------------------------------------------------------
MaxOccurrences == 3

\* _doi_quality_score in tenths: validity, length, suspicious sequences, and
\* an ending of five or more letters and digits
HasPair(doi, c) == \E i \in 1..(Len(doi) - 1) : doi[i] = c /\ doi[i + 1] = c
_doi_quality_score(doi) ==
    LET length  == Len(doi)
        base    == 10 + (IF 15 <= length /\ length <= 50 THEN 10
                         ELSE IF length < 15 THEN 5 ELSE 0)
        suspect == (IF HasPair(doi, ".") THEN 2 ELSE 0) + (IF HasPair(doi, "-") THEN 2 ELSE 0)
                   + (IF HasPair(doi, "/") THEN 2 ELSE 0)
                   + (IF Range(doi) \cap {"(", ")", "[", "]"} # {} THEN 2 ELSE 0)
        ending  == IF TrailingRun(doi, Range(UpperChars) \cup Range(LowerChars) \cup Digits) >= 5
                   THEN 5 ELSE 0
    IN IF doi = <<>> \/ ~_is_valid_doi(doi) THEN 0
       ELSE Max(0, base - suspect + ending)

\* A text is the list of the DOI occurrences in it, in reading order: how the
\* occurrence is introduced (a "doi:" label, a doi.org URL, or nothing) and
\* its characters, continuation included
Occurrence(intro, doi_full) == [intro |-> intro, doi_full |-> doi_full]
\* the matches of the three patterns, one pattern after the other; the last
\* pattern (a bare DOI) matches every occurrence
PatternMatches(text) ==
    Pick(text, {i \in 1..Len(text) : text[i].intro = "label"})
    \o Pick(text, {i \in 1..Len(text) : text[i].intro = "url"})
    \o text
\* all_candidates before sorting: normalized, valid, first occurrence kept
RECURSIVE Collect(_, _, _)
Collect(found, i, acc) ==
    IF i > Len(found) THEN acc
    ELSE LET d == normalize_doi(found[i].doi_full)
         IN Collect(found, i + 1,
                    IF _is_valid_doi(d) /\ d \notin Range(acc) THEN Append(acc, d) ELSE acc)
\* all_candidates.sort(key=len, reverse=True): stable
RECURSIVE InsertByLen(_, _)
InsertByLen(sorted, d) ==
    IF sorted = <<>> THEN <<d>>
    ELSE IF Len(sorted[1]) >= Len(d) THEN <<sorted[1]>> \o InsertByLen(Tail(sorted), d)
    ELSE <<d>> \o sorted
RECURSIVE SortByLen(_, _, _)
SortByLen(cands, i, acc) ==
    IF i > Len(cands) THEN acc ELSE SortByLen(cands, i + 1, InsertByLen(acc, cands[i]))
\* the loop over all_candidates[1:]: it stops at the first shorter candidate
\* that is a prefix of the longest (keeping the longest) or that scores higher
\* than the longest (taking it)
BestDoi(sorted) ==
    LET stops == {i \in 2..Len(sorted) :
                    \/ StartsWith(sorted[1], sorted[i])
                    \/ _doi_quality_score(sorted[i]) > _doi_quality_score(sorted[1])}
        first == CHOOSE i \in stops : \A j \in stops : i <= j
    IN IF stops = {} \/ StartsWith(sorted[1], sorted[first]) THEN sorted[1]
       ELSE sorted[first]
\* (best_doi, all_candidates)
extract_doi_from_text(text) ==
    LET all_candidates == SortByLen(Collect(PatternMatches(text), 1, <<>>), 1, <<>>)
    IN IF text = <<>> \/ all_candidates = <<>> THEN <<NoDoi, <<>>>>
       ELSE <<BestDoi(all_candidates), all_candidates>>

\* a long DOI with brackets and dots, a shorter one with a double hyphen, a
\* clean one, a DOI with its cut-off copy, and a string too short for a DOI
TextDois ==
    {<<"1", "0", ".", "9", "9", "9", "9", "/", "x", "(", "y", ")", ".", ".", "z", "z", "z", "z", "z", "z", "-">>,
     <<"1", "0", ".", "1", "2", "3", "4", "/", "a", "b", "-", "-", "c", "d", "e", "f", "g", "h">>,
     <<"1", "0", ".", "5", "6", "7", "8", "/", "a", "b", "c", "d", "e", "f", "g">>,
     <<"1", "0", ".", "1", "2", "3", "4", "/", "a", "b", "c", "d", "e", "(", "1", ")", "x">>,
     <<"1", "0", ".", "1", "2", "3", "4", "/", "a", "b", "c", "d", "e">>,
     <<"1", "0", ".", "1", "2", "/", "a">>}
Occurrences == {Occurrence(intro, d) : intro \in {"label", "url", "bare"}, d \in TextDois}
Texts == UNION {[1..n -> Occurrences] : n \in 0..MaxOccurrences}

InitDoiText ==
    /\ Blank
    /\ files = <<>> /\ zip_xml = NoXml /\ xml_on_disk = NoXml
    /\ ret = <<>>
    /\ pc = "doi_text_in"
    /\ \E text \in Texts : arg = <<text>>

\* best_doi, all_candidates = matcher.extract_doi_from_text(text)
ExtractDoiFromText ==
    /\ pc = "doi_text_in"
    /\ ret' = extract_doi_from_text(arg[1])
    /\ pc' = "doi_text_out"
    /\ UNCHANGED <<web, run, files, disk, arg>>

NextDoiText == ExtractDoiFromText
SpecDoiText == InitDoiText /\ [][NextDoiText]_vars

\* ---------------------------------------------------------------------------
\* process_zip on bundles where identifiers and fuzzy signals both occur
\* ---------------------------------------------------------------------------
ReportShapes == {sh \in Shapes : sh[1] <= 2 /\ sh[2] <= 2}
ReportArticles == {Article(None, NoDoi), Article(EdnP, NoDoi), Article(None, DoiX)}
ReportPdfIds == {<<None, NoDoi>>, <<EdnP, NoDoi>>, <<None, DoiShort>>, <<None, DoiX>>}
ReportProfiles == {CompZero,
                   Comp(25, 0, 100, 0),      \* 0.20
                   Comp(50, 50, 100, 40),    \* 0.52
                   CompStrong}               \* 0.90

ProcessZipReport ==
    /\ pc = "idle"
    /\ \E sh \in ReportShapes : \E arts \in [1..sh[1] -> ReportArticles] :
         \E ids \in [1..sh[2] -> ReportPdfIds] :
           \E cs \in [1..sh[1] -> [1..sh[2] -> ReportProfiles]] :
             StartRun(Bundle(arts, PdfEntries(ids, FALSE), cs))

NextReport == ProcessZipReport \/ Steps
SpecReport == InitAny /\ [][NextReport]_vars

\* ---------------------------------------------------------------------------
\* User administration: login, create_user, delete_user, toggle_user_active
\* ---------------------------------------------------------------------------
\* The server handles requests in threads, each with its own database
\* session: a request reads the rows it needs (the check), and its commit
\* writes what it computed from those reads.  Only requests whose issuer is
\* an active administrator when checked are modelled; where login_required
\* lets a deactivated user through, further requests exist.
LoggedInAdmin(u) ==
    /\ u \in sessions
    /\ users[u].exists               \* load_user returns the row
    /\ users[u].is_active
    /\ users[u].is_admin

\* auth.login with the right password
Login ==
    /\ \E u \in UserIds :
         /\ users[u].exists /\ users[u].is_active
         /\ u \notin sessions
         /\ sessions' = sessions \cup {u}
    /\ UNCHANGED <<call, run, files, disk, pc, users, requests>>

\* create_user (POST): a new row with the next id, active
CreateUser ==
    /\ \E actor \in UserIds, u \in UserIds, is_admin \in BOOLEAN :
         /\ LoggedInAdmin(actor)
         /\ ~users[u].exists /\ \A v \in UserIds : users[v].exists => v < u
         /\ users' = [users EXCEPT ![u] = User(is_admin, TRUE)]
    /\ UNCHANGED <<call, run, files, disk, pc, sessions, requests>>

\* delete_user up to db.session.delete(user): the checks of lines 136-145
DeleteUserCheck ==
    /\ \E actor \in UserIds, user_id \in UserIds :
         /\ requests[actor] = NoRequest
         /\ LoggedInAdmin(actor)
         /\ users[user_id].exists          \* get_or_404
         /\ user_id # actor
         /\ requests' = [requests EXCEPT
                           ![actor] = [op |-> "delete", target |-> user_id, value |-> FALSE]]
    /\ UNCHANGED <<call, run, files, disk, pc, users, sessions>>

\* toggle_user_active up to the assignment of line 171
ToggleUserActiveCheck ==
    /\ \E actor \in UserIds, user_id \in UserIds :
         /\ requests[actor] = NoRequest
         /\ LoggedInAdmin(actor)
         /\ users[user_id].exists          \* get_or_404
         /\ user_id # actor
         /\ requests' = [requests EXCEPT
                           ![actor] = [op |-> "toggle", target |-> user_id,
                                       value |-> ~users[user_id].is_active]]
    /\ UNCHANGED <<call, run, files, disk, pc, users, sessions>>

\* db.session.commit() of either request; a row deleted meanwhile is not
\* written, and the session of a deleted user no longer loads
Commit ==
    /\ \E actor \in UserIds :
         LET r == requests[actor]
         IN /\ r # NoRequest
            /\ users' = IF ~users[r.target].exists THEN users
                        ELSE IF r.op = "delete" THEN [users EXCEPT ![r.target] = NoUser]
                        ELSE [users EXCEPT ![r.target].is_active = r.value]
            /\ requests' = [requests EXCEPT ![actor] = NoRequest]
    /\ UNCHANGED <<call, run, files, disk, pc, sessions>>

NextAdmin == Login \/ CreateUser \/ DeleteUserCheck \/ ToggleUserActiveCheck \/ Commit
SpecAdmin == Init /\ [][NextAdmin]_vars

\* ---------------------------------------------------------------------------
\* Properties
\* ---------------------------------------------------------------------------
Entry(i) == all_matches[i]
\* the report entries that carry a PDF
Assigned == {i \in DOMAIN all_matches : all_matches[i].pdf_filename # None}
EdnMatchedArticles == {matches_edn[i].article_index : i \in DOMAIN matches_edn}
EdnMatchedPdfs == {matches_edn[i].pdf : i \in DOMAIN matches_edn}
PdfsWithDoi(d) == {k \in DOMAIN pdf_entries : pdf_entries[k].doi = d}

\* C1: in the report of a finished run no PDF and no PDF file name belongs to
\* the entries of two articles, and no article has two entries with a PDF.
\* (Fails: Phase 1 forgets the pairings of Phase 0.)
C1_InjectiveAssignment ==
    pc = "done" =>
      \A i, j \in Assigned :
        i # j => /\ Entry(i).article_index # Entry(j).article_index
                 /\ Entry(i).pdf # Entry(j).pdf
                 /\ Entry(i).pdf_filename # Entry(j).pdf_filename

\* C2: an article and a PDF that carry the same DOI, carried by no other
\* article and no other PDF, and that Phase 0 left unpaired, are paired as
\* doi_exact with score 1.0 in the report, whatever the order of the PDFs.
\* (Fails: an earlier PDF with a truncated DOI takes the article as doi_partial.)
C2_IdentifierPrecedence ==
    pc = "done" =>
      \A a \in DOMAIN articles_info : \A k \in DOMAIN pdf_entries :
        ( /\ articles_info[a].doi # NoDoi
          /\ articles_info[a].doi = pdf_entries[k].doi
          /\ DoiArticles(articles_info, articles_info[a].doi) = {a}
          /\ PdfsWithDoi(pdf_entries[k].doi) = {k}
          /\ a \notin EdnMatchedArticles
          /\ k \notin EdnMatchedPdfs )
        => \E i \in DOMAIN all_matches :
             /\ Entry(i).article_index = a
             /\ Entry(i).pdf = k
             /\ Entry(i).method = "doi_exact"
             /\ Entry(i).score = SCORE_EXACT

\* C3: a pairing of Phase 0 is final: in the report the EDN-matched article has
\* no other PDF, the EDN-matched PDF no other article, and the manifest holds
\* the EDN-matched file name for the article.
\* (Fails: Phase 1 and Phase 2 start from empty matched sets.)
C3_EdnPairingFinal ==
    pc = "done" =>
      \A e \in DOMAIN matches_edn :
        /\ \A i \in Assigned :
             Entry(i).article_index = matches_edn[e].article_index
               => Entry(i).pdf = matches_edn[e].pdf
        /\ \A i \in Assigned :
             Entry(i).pdf = matches_edn[e].pdf
               => Entry(i).article_index = matches_edn[e].article_index
        /\ PdfTexts(files[matches_edn[e].article_index]) = <<matches_edn[e].pdf_filename>>

\* C4: the report holds exactly one entry per article, in ascending article
\* index (so no article is listed both as matched and as unmatched).
\* (Fails: an EDN-matched article is also listed as unmatched.)
C4_OneEntryPerArticle ==
    pc = "done" =>
      /\ Len(all_matches) = Len(articles_info)
      /\ \A i \in DOMAIN all_matches : Entry(i).article_index = i

\* C5: after Phase 0, every PDF whose EDN is carried by exactly one article is
\* paired with that article as edn_exact, score 1.0, confidence high, provided
\* both were still unmatched when the PDF was visited (no earlier PDF carries the
\* same EDN); a PDF whose EDN is shared by several articles is paired with none.
C5_EdnPhase ==
    pc \notin {"idle", "edn"} =>
      \A k \in DOMAIN pdf_entries :
        LET e == pdf_entries[k].edn
            as == {a \in DOMAIN articles_info : articles_info[a].edn = e}
        IN e # None =>
             /\ ( /\ Cardinality(as) = 1
                  /\ \A k2 \in 1..(k - 1) : pdf_entries[k2].edn # e )
                => \E i \in DOMAIN matches_edn :
                     /\ matches_edn[i].pdf = k
                     /\ matches_edn[i].article_index \in as
                     /\ matches_edn[i].pdf_filename = Filename(pdf_entries[k])
                     /\ matches_edn[i].method = "edn_exact"
                     /\ matches_edn[i].score = SCORE_EXACT
                     /\ matches_edn[i].confidence = "high"
             /\ Cardinality(as) > 1
                => \A i \in DOMAIN matches_edn : matches_edn[i].pdf # k

\* Phase 0 is over: one PDF was paired by its EDN and another PDF, whose EDN
\* two articles share, was left alone
C5_Witness ==
    /\ pc = "doi"
    /\ \E i \in DOMAIN matches_edn :
         /\ matches_edn[i].method = "edn_exact"
         /\ pdf_entries[matches_edn[i].pdf].edn
              = articles_info[matches_edn[i].article_index].edn
    /\ \E k \in DOMAIN pdf_entries :
         /\ pdf_entries[k].edn # None
         /\ Cardinality(EdnArticles(articles_info, pdf_entries[k].edn)) >= 2
         /\ k \notin EdnMatchedPdfs

\* a well-formed DOI of non-trivial length that equals or partially matches no
\* article DOI of the manifest
OrphanDoi(d) ==
    /\ d # NoDoi
    /\ _is_valid_doi(d)
    /\ \A a \in DOMAIN articles_info :
         LET x == articles_info[a].doi
         IN x = NoDoi \/ (x # d /\ ~FwdPartial(x, d) /\ ~RevPartial(x, d))

\* C6: a PDF with such a DOI is never assigned by the fuzzy fallback.
\* (Fails: _match_fallback scores every PDF that Phase 1 left unmatched.)
C6_OrphanDoiExcluded ==
    \A i \in DOMAIN matches_fallback :
      ~OrphanDoi(pdf_entries[matches_fallback[i].pdf].doi)

\* the pairs of article a in scored_pairs
PairsOf(a) == {i \in DOMAIN scored_pairs : scored_pairs[i].art = a}
\* article a has two candidate pairs whose scores are its best and second-best
\* and lie closer than the margin
CloseTopTwo(a) ==
    \E i, j \in PairsOf(a) :
      /\ i # j
      /\ \A m \in PairsOf(a) : scored_pairs[m].score <= scored_pairs[i].score
      /\ \A m \in PairsOf(a) \ {i} : scored_pairs[m].score <= scored_pairs[j].score
      /\ scored_pairs[i].score - scored_pairs[j].score < MARGIN_SCORE_GAP
FallbackArticles == {matches_fallback[i].article_index : i \in DOMAIN matches_fallback}

\* C7: an article whose best and second-best candidate scores differ by less
\* than the margin is marked ambiguous, and the high- and medium-confidence
\* greedy passes leave it unassigned, whatever its scores.
C7_MarginRule ==
    pc \in {"level1", "level2", "level3"} =>
      \A a \in DOMAIN articles_info :
        CloseTopTwo(a) =>
          /\ a \in ambiguous_articles
          /\ a \notin local_matched_articles
          /\ a \notin FallbackArticles

\* both greedy passes are over and left alone an ambiguous article whose best
\* score reaches the high threshold
C7_Witness ==
    /\ pc = "level3"
    /\ \E a \in ambiguous_articles :
         /\ CloseTopTwo(a)
         /\ \E i \in PairsOf(a) : scored_pairs[i].score >= MIN_SCORE_HIGH_CONFIDENCE
         /\ a \notin local_matched_articles

\* the PDFs the greedy passes assigned
GreedyPdfs ==
    {matches_fallback[i].pdf :
       i \in {m \in DOMAIN matches_fallback :
                matches_fallback[m].confidence \in {"high", "medium"}}}
\* the candidates of article a the greedy passes left unassigned
Remaining(a) == {i \in PairsOf(a) : scored_pairs[i].pdf \notin GreedyPdfs}
BestRemaining(a) ==
    {i \in Remaining(a) :
       \A m \in Remaining(a) : scored_pairs[m].score <= scored_pairs[i].score}

\* C8: when Phase 2 is over, every ambiguous article that had a candidate PDF
\* left unassigned by the greedy passes is assigned at low confidence: the one
\* remaining candidate, or else its best-scoring remaining candidate.
\* (Fails: level 3 assigns only when exactly one candidate is available and its
\* score reaches the low floor.)
C8_AmbiguousAssigned ==
    pc = "report" =>
      \A a \in ambiguous_articles :
        Remaining(a) # {} =>
          \E m \in DOMAIN matches_fallback : \E i \in BestRemaining(a) :
            /\ matches_fallback[m].article_index = a
            /\ matches_fallback[m].pdf = scored_pairs[i].pdf
            /\ matches_fallback[m].confidence = "low"

\* the tier of a score under the thresholds in force
Tier(s) ==
    IF s >= MIN_SCORE_HIGH_CONFIDENCE THEN "high"
    ELSE IF s >= MIN_SCORE_MEDIUM_CONFIDENCE THEN "medium"
    ELSE IF s >= MIN_SCORE_LOW_CONFIDENCE THEN "low"
    ELSE "none"

\* C9: when the greedy passes are over, no non-ambiguous pair that scores at
\* least the low floor has both its article and its PDF still free, every
\* assignment carries the confidence of the tier of its score, and no pair below
\* the low floor is assigned.
\* (Fails: the greedy passes assign only pairs that reach the medium threshold.)
C9_GreedyAssignment ==
    pc = "level3" =>
      /\ \A i \in DOMAIN scored_pairs :
           ( /\ scored_pairs[i].art \notin ambiguous_articles
             /\ scored_pairs[i].score >= MIN_SCORE_LOW_CONFIDENCE )
           => \/ scored_pairs[i].art \in local_matched_articles
              \/ scored_pairs[i].pdf \in local_matched_pdfs
      /\ \A m \in DOMAIN matches_fallback :
           /\ matches_fallback[m].score >= MIN_SCORE_LOW_CONFIDENCE
           /\ matches_fallback[m].confidence = Tier(matches_fallback[m].score)

\* C10: whatever runs the matcher has served, the high threshold lies in
\* [0.65, 0.85], the medium threshold in [0.35, 0.65], the low floor is the
\* default 0.25, and low < medium <= high.
C10_ThresholdBounds ==
    /\ HIGH_LO <= MIN_SCORE_HIGH_CONFIDENCE
    /\ MIN_SCORE_HIGH_CONFIDENCE <= HIGH_HI
    /\ MEDIUM_LO <= MIN_SCORE_MEDIUM_CONFIDENCE
    /\ MIN_SCORE_MEDIUM_CONFIDENCE <= MEDIUM_HI
    /\ MIN_SCORE_LOW_CONFIDENCE = DEFAULT_MIN_SCORE_LOW_CONFIDENCE
    /\ MIN_SCORE_LOW_CONFIDENCE < MIN_SCORE_MEDIUM_CONFIDENCE
    /\ MIN_SCORE_MEDIUM_CONFIDENCE <= MIN_SCORE_HIGH_CONFIDENCE

\* a recalibration on scores above both upper bounds has moved the two
\* thresholds to their upper bounds
C10_Witness ==
    /\ pc = "level1"
    /\ adaptive_thresholds
    /\ \A i \in DOMAIN scored_pairs : scored_pairs[i].score > HIGH_HI
    /\ scored_pairs # <<>>
    /\ MIN_SCORE_HIGH_CONFIDENCE = HIGH_HI
    /\ MIN_SCORE_MEDIUM_CONFIDENCE = MEDIUM_HI

\* C11: whatever file names set_pdf_file_in_article was called with on an
\* article, no call adds a second file(desc=PDF) element: the article holds
\* as many as before the first call, or one if it held none; the first of them
\* carries the name of the last call and every other element is as it was.  An
\* article that started with at most one such element holds exactly one, with
\* the name of the last call (so a second call with the same name changes
\* nothing and a call with another name replaces the text).
C11_SetPdfFileIdempotent ==
    (pc = "writer" /\ arg # <<>>) =>
      LET before == zip_xml.articles[1]
          after  == files[1]
          n0     == Cardinality(PdfElems(before))
          first  == CHOOSE i \in PdfElems(after) : \A j \in PdfElems(after) : i <= j
      IN /\ Cardinality(PdfElems(after)) = Max(1, n0)
         /\ after[first].text = arg[Len(arg)]
         /\ Len(after) = IF n0 = 0 THEN Len(before) + 1 ELSE Len(before)
         /\ \A i \in 1..Len(before) : i # first => after[i] = before[i]
         /\ n0 <= 1 => PdfTexts(after) = <<arg[Len(arg)]>>

\* the same name twice, then another name, on an article that held one
\* reference; one element holds the last name
C11_Witness ==
    /\ pc = "writer"
    /\ Len(arg) = 3 /\ arg[1] = arg[2] /\ arg[3] # arg[2]
    /\ Cardinality(PdfElems(zip_xml.articles[1])) = 1
    /\ PdfTexts(files[1]) = <<arg[3]>>

\* C12: in the manifest process_zip has written, every article holds at most
\* one file(desc=PDF) element, whatever the manifest held before and whatever
\* cleanup_old is.
\* (Fails: with cleanup_old = False the references already present stay, and
\* set_pdf_file_in_article rewrites only the first of them.)
C12_OnePdfRefPerArticle ==
    pc = "done" =>
      \A a \in DOMAIN xml_on_disk.articles :
        Cardinality(PdfElems(xml_on_disk.articles[a])) <= 1

\* C13: process_zip goes on to the matching phases only with a manifest, at
\* least one PDF and at least one article; otherwise it raises, and then the
\* manifest on disk is the one of the archive, as extracted: no reference
\* removed or written, no serialization by tree.write.
C13_NoWriteOnError ==
    /\ pc = "raised" => xml_on_disk = zip_xml
    /\ pc \notin {"idle", "raised"} =>
         zip_xml.present /\ pdf_entries # <<>> /\ articles_info # <<>>

\* process_zip raised on an archive without PDFs whose manifest holds old
\* references: they are still on disk
C13_Witness ==
    /\ pc = "raised"
    /\ zip_xml.present
    /\ pdf_entries = <<>>
    /\ \E a \in DOMAIN xml_on_disk.articles : PdfElems(xml_on_disk.articles[a]) # {}

\* the reason the report should give for leaving article a unmatched
ExpectedReason(a) ==
    IF a \in ambiguous_articles THEN "ambiguous"
    ELSE IF PairsOf(a) # {} THEN "low_score"
    ELSE "no_candidate"

\* C14: every unmatched entry of the report carries a reason that is one of
\* ambiguous, low_score and no_candidate, according to why the article was
\* left: deferred as ambiguous, candidates scoring too low, no candidate.
\* (Fails: the reason is always no_suitable_pdf_found.)
C14_UnmatchedReason ==
    pc = "done" =>
      \A i \in DOMAIN all_matches :
        Entry(i).method = "unmatched" =>
          /\ Entry(i).details.reason \in {"ambiguous", "low_score", "no_candidate"}
          /\ Entry(i).details.reason = ExpectedReason(Entry(i).article_index)

\* C15: normalizing a normalized DOI changes nothing:
\* normalize_doi(normalize_doi(x)) = normalize_doi(x) for every string x.
\* (Fails: one pass removes one label, removes the URL prefix only in lower
\* case, and strips whitespace after the trailing punctuation.)
C15_NormalizeDoiIdempotent ==
    pc = "doi_again" => ret = arg[2]

\* C16: normalizing a normalized EDN changes nothing:
\* normalize_edn(normalize_edn(x)) = normalize_edn(x) for every string x.
C16_NormalizeEdnIdempotent ==
    pc = "edn_again" => ret = arg[2]

\* a labelled, lower-case, over-long EDN was cut to six characters and
\* normalized again
C16_Witness ==
    /\ pc = "edn_again"
    /\ StartsWith(arg[1], <<"E", "D", "N", ":", " ">>)
    /\ Len(arg[1]) > 11
    /\ arg[1] # Upper(arg[1])
    /\ Len(arg[2]) = 6
    /\ ret = arg[2]

\* C17: title similarity is reflexive: calculate_title_similarity(s, s) is
\* exactly 1.0 for every non-empty string s, whatever its characters.
\* (Fails: a title of punctuation only normalizes to the empty string.)
C17_TitleSimilarityReflexive ==
    /\ pc = "title_out"
    /\ arg[1] = arg[2]
    /\ arg[1] # <<>>
    => ret[1] = Unit

\* C18: calculate_title_similarity is exactly 0.0 whenever either title is
\* empty or the two titles have no normalized word in common.
\* (Fails: words that differ can share character trigrams.)
C18_DisjointTitlesScoreZero ==
    /\ pc = "title_out"
    /\ \/ arg[1] = <<>>
       \/ arg[2] = <<>>
       \/ Range(Split(normalize_text(arg[1]))) \cap Range(Split(normalize_text(arg[2]))) = {}
    => ret[1] = 0

\* the signals of a call that are structurally available: the data they
\* compare exist on both sides
AvailableSignals ==
    LET pdf_meta == arg[1]
        article  == arg[2]
        title    == IF article.title_rus # <<>> THEN article.title_rus ELSE article.title_eng
    IN (IF pdf_meta.title # <<>> /\ title # <<>> THEN {"title"} ELSE {})
       \cup (IF pdf_meta.authors # <<>> /\ article.authors_rus # <<>> THEN {"authors"} ELSE {})
       \cup (IF article.pages # None THEN {"pages"} ELSE {})
       \cup (IF KeyWords(Lower(title)) # {} /\ KeyWords(Lower(Stem(arg[3]))) # {}
             THEN {"filename"} ELSE {})

\* C19: the weights are redistributed over the structurally available
\* signals: a pair whose every available signal is a perfect match scores 1.0,
\* and a pair with the title as its only signal, equal after normalization,
\* scores at least 0.9.
\* (Fails: the weights are fixed; a perfect title alone scores 0.60.)
C19_WeightsRedistributed ==
    /\ (/\ pc = "score_out"
        /\ AvailableSignals # {}
        /\ \A s \in AvailableSignals : ret[2][s] = 100)
       => ret[1] = Unit
    /\ (/\ pc = "score_out"
        /\ AvailableSignals = {"title"}
        /\ ret[2].title = 100)
       => ret[1] >= 9000

\* the thresholds a matcher that has processed no bundle applies to the
\* scored pairs of the current run
FreshThresholds ==
    IF adaptive_thresholds
    THEN _adjust_thresholds([i \in 1..Len(scored_pairs) |-> scored_pairs[i].score],
                            DEFAULT_MIN_SCORE_HIGH_CONFIDENCE,
                            DEFAULT_MIN_SCORE_MEDIUM_CONFIDENCE)
    ELSE [high |-> DEFAULT_MIN_SCORE_HIGH_CONFIDENCE,
          medium |-> DEFAULT_MIN_SCORE_MEDIUM_CONFIDENCE]

\* C20: the engine is re-entrant across bundles: the thresholds a run applies
\* to its scored pairs (and with them its matches and confidences) are those
\* a fresh matcher would apply, whatever bundles the matcher processed before.
\* (Fails: _adjust_thresholds writes the thresholds to the matcher, and the
\* next run starts from them.)
C20_ReentrantAcrossBundles ==
    pc = "level1" /\ scored_pairs # <<>> =>
      /\ MIN_SCORE_HIGH_CONFIDENCE = FreshThresholds.high
      /\ MIN_SCORE_MEDIUM_CONFIDENCE = FreshThresholds.medium

\* the articles whose DOI partially matches a PDF's DOI, in either direction
PartialArticles(pdf_doi) ==
    {a \in 1..Len(articles_info) :
       /\ articles_info[a].doi # NoDoi
       /\ \/ FwdPartial(articles_info[a].doi, pdf_doi)
          \/ RevPartial(articles_info[a].doi, pdf_doi)}

\* C21: a doi_partial pairing is made for a PDF only if the partial match is
\* unique: exactly one article DOI of the manifest partially matches the
\* PDF's DOI.
\* (Fails: the loop over doi_index assigns on the first key that matches
\* partially and breaks.)
C21_DoiPartialOnlyIfUnique ==
    \A i \in DOMAIN matches_doi :
      matches_doi[i].method = "doi_partial" =>
        Cardinality(PartialArticles(pdf_entries[matches_doi[i].pdf].doi)) = 1

\* the text of the codes/doi element that is a child of the article itself
OwnDoiText(article_elem) ==
    LET own == {i \in 1..Len(article_elem) : article_elem[i].path = <<"codes", "doi">>}
    IN IF own = {} THEN <<>>
       ELSE article_elem[CHOOSE i \in own : \A j \in own : i <= j].text

\* C22: an article's DOI is read only from the article's own codes/doi: a
\* codes/doi nested deeper (in a reference-list entry) is never taken as the
\* article's DOI, also when the article has no DOI of its own.
\* (Fails: find(".//codes/doi") searches every depth.)
C22_DoiFromOwnCodesOnly ==
    pc \notin {"idle", "done"} =>
      \A a \in 1..Len(articles_info) :
        articles_info[a].doi =
          (IF Strip(OwnDoiText(zip_xml.elements[a])) # <<>>
           THEN normalize_doi(OwnDoiText(zip_xml.elements[a])) ELSE NoDoi)

\* the upper-case letters and digits of an EDN field, its label removed
EdnCharacters(text) == Keep(StripEdnLabel(Upper(Strip(text))), Range(UpperChars) \cup Digits)

\* C23: an article's EDN is usable only if exactly 6 upper-case alphanumeric
\* characters remain after normalization: an article whose EDN field
\* normalizes to fewer or more characters never gets an edn_exact match.
\* (Fails: normalize_edn cuts a longer EDN to its first six characters.)
C23_EdnExactlySix ==
    \A i \in DOMAIN matches_edn :
      Len(EdnCharacters(CodeText(zip_xml.elements[matches_edn[i].article_index], "edn"))) = 6

\* C24: a per-PDF extraction failure is never fatal: when reading a PDF fails
\* at any point, or PDF support is missing, extract_pdf_metadata returns
\* metadata with no title, authors, DOI or EDN and a quality tier that is not
\* usable, and the run goes on with the other PDFs.
\* (Fails: the except clause keeps the fields set before the failure.)
C24_FailedPdfHasNoFields ==
    pc = "extract" =>
      \A i \in 1..Len(ret) :
        (~arg[1] \/ arg[2][i].fails # "never") =>
          /\ ret[i].title = None /\ ret[i].authors = <<>>
          /\ ret[i].doi = NoDoi /\ ret[i].edn = None
          /\ ret[i].extraction_quality \notin {"low", "medium", "high"}

\* C25: validate_file never raises; it reports valid = True only when the path
\* exists, is a file and is readable, with no errors; when a check fails it
\* returns valid = False, the flags of the failed and of all later checks
\* False, and at least one error.
\* (Fails: before Python 3.13 Path.exists() raises PermissionError for a path
\* below a directory that may not be searched.)
C25_ValidateFileNeverRaises ==
    /\ pc # "validate_raised"
    /\ pc = "validate_out" =>
         LET r == ret[1]
         IN /\ r.valid <=> (r.exists /\ r.is_file /\ r.is_readable /\ r.errors = <<>>)
            /\ r.valid <=> (arg[1].searchable /\ arg[1].kind = "file"
                             /\ arg[1].stat_ok /\ arg[1].content = "text")
            /\ ~r.exists => ~r.is_file
            /\ ~r.is_file => ~r.is_readable
            /\ ~r.valid => r.errors # <<>>

\* C26: when a text holds several DOI candidates, extract_doi_from_text
\* returns the candidate with the best quality score among all candidates.
\* (Fails: it returns the longest candidate, or the first shorter one that
\* scores higher than the longest.)
C26_BestQualityDoi ==
    pc = "doi_text_out" =>
      \A i \in 1..Len(ret[2]) : _doi_quality_score(ret[1]) >= _doi_quality_score(ret[2][i])

\* the file names the report gives an article, and the ones of its manifest
ReportedNames(a) ==
    {Entry(i).pdf_filename : i \in {j \in Assigned : Entry(j).article_index = a}}
ManifestNames(a) == Range(PdfTexts(files[a]))
ReportedUnmatched(a) ==
    \E i \in DOMAIN all_matches :
      Entry(i).article_index = a /\ Entry(i).pdf_filename = None

\* C27: after a run with cleanup_old enabled the written manifest agrees with
\* the report: an article carries a PDF file element with text f exactly when
\* a report entry of the article has pdf_filename = f, and an article reported
\* unmatched carries no PDF file element.
\* (Fails: an article paired in Phase 0 is reported unmatched as well, and a
\* later phase overwrites its file element while both entries stay.)
C27_ManifestAgreesWithReport ==
    pc = "done" =>
      \A a \in DOMAIN articles_info :
        /\ xml_on_disk.present
        /\ ManifestNames(a) = ReportedNames(a)
        /\ ReportedUnmatched(a) => PdfTexts(xml_on_disk.articles[a]) = <<>>

\* the distinct articles that have a report entry with a PDF
ReportedMatched == {Entry(i).article_index : i \in Assigned}

\* C28: the counters of the result agree with the report: matched_articles is
\* the number of distinct articles with an entry that carries a PDF (matches
\* of every phase), unmatched_articles the number of entries without one, and
\* the two add up to total_articles.
\* (Fails: the matches of Phase 0 are not counted.)
C28_CountersAgreeWithReport ==
    pc = "done" =>
      /\ result.matched_articles = Cardinality(ReportedMatched)
      /\ result.unmatched_articles = Cardinality(DOMAIN all_matches \ Assigned)
      /\ result.matched_articles + result.unmatched_articles = result.total_articles

\* the methods _determine_match_method gives a fuzzy pairing
FuzzyMethods == {"title_high", "title_authors", "pages_title", "fallback"}

\* C29: every report entry is consistent in itself: it has no PDF exactly when
\* its method is unmatched, exactly when its confidence is none, and then its
\* score is 0; edn_exact and doi_exact entries have score 1.0 and confidence
\* high; doi_partial entries have score 0.95 and confidence high; a fuzzy
\* entry has a positive score not below the low floor, and confidence high
\* only with a score not below the high threshold in force.
C29_EntryConsistent ==
    pc = "done" =>
      \A i \in DOMAIN all_matches :
        LET e == Entry(i)
        IN /\ (e.pdf_filename = None) <=> (e.method = "unmatched")
           /\ (e.method = "unmatched") <=> (e.confidence = "none")
           /\ e.method = "unmatched" => e.score = 0
           /\ e.method \in {"edn_exact", "doi_exact"}
                => e.score = SCORE_EXACT /\ e.confidence = "high"
           /\ e.method = "doi_partial"
                => e.score = SCORE_DOI_PARTIAL /\ e.confidence = "high"
           /\ e.method \in FuzzyMethods
                => /\ e.score > 0
                   /\ e.score >= MIN_SCORE_LOW_CONFIDENCE
                   /\ e.confidence = "high" => e.score >= MIN_SCORE_HIGH_CONFIDENCE
           /\ e.method \in FuzzyMethods \cup {"unmatched", "edn_exact", "doi_exact",
                                                "doi_partial"}

\* a report that holds an identifier pairing and a low-confidence fuzzy one
C29_Witness ==
    /\ pc = "done"
    /\ \E i \in DOMAIN all_matches : Entry(i).method \in {"edn_exact", "doi_exact", "doi_partial"}
    /\ \E i \in DOMAIN all_matches :
         Entry(i).method \in FuzzyMethods /\ Entry(i).confidence = "low"

ActiveAdmins == {u \in UserIds : users[u].exists /\ users[u].is_admin /\ users[u].is_active}

\* C30: at every moment at least one active administrator account exists,
\* whatever delete_user and toggle_user_active requests logged-in active
\* administrators issue and however their checks and commits interleave.
\* (Fails: two administrators each pass the checks for the other's account
\* and then both commit.)
C30_ActiveAdminExists == ActiveAdmins # {}

====
